---- MODULE Spec2Model ----
(***************************************************************************)
(* Model of src/mode_a_logic.py (ModeAProcessor): the resolution pipeline  *)
(* process() / _process_internal() and the helpers it calls.               *)
(*                                                                         *)
(* Python strings are sequences of one-character strings.  A Hangul        *)
(* syllable is one character, written in romanised form ("jeom" is 점,     *)
(* "po" is 포, so <<"jeom","po">> is the string '점포'); Latin letters,    *)
(* digits and punctuation are written as themselves.  Areas are numbers of *)
(* hundredths of a square metre (5000 is 50.00 m2).                        *)
(***************************************************************************)
EXTENDS Integers, Sequences, FiniteSets, TLC

(***************************************************************************)
(* String primitives (Python str methods and the re calls of the source).  *)
(***************************************************************************)
Digits == {"0", "1", "2", "3", "4", "5", "6", "7", "8", "9"}

DigitChars == <<"0", "1", "2", "3", "4", "5", "6", "7", "8", "9">>

Abs(n) == IF n < 0 THEN -n ELSE n

\* Areas are counted in hundredths of a square metre.  The code holds them as
\* binary doubles: abs(float(a) - float(b)) < 0.1 agrees with the decimal
\* comparison except for areas exactly a tenth apart, where neither the areas
\* nor 0.1 are exact and the double difference falls on either side of the
\* double 0.1.  TenthApartIsBelow gives that outcome by the smaller area, for
\* the smaller areas the model uses: 29.90 and 30.00 (30.10 - 30.00 is
\* 0.10000000000000142), 99.90 and 100.00 (100.10 - 100.00 is
\* 0.09999999999999432).
\* abs(float(a) - float(b)) < 0.1
DiffBelowTenth(a, b) ==
    LET TenthApartIsBelow ==
            (2990 :> FALSE) @@ (3000 :> FALSE) @@ (9990 :> TRUE) @@ (10000 :> TRUE)
    IN IF Abs(a - b) # 10 THEN Abs(a - b) < 10
       ELSE TenthApartIsBelow[IF a < b THEN a ELSE b]

\* kw occurs in s at position i
IsPrefixAt(s, kw, i) ==
    /\ i + Len(kw) - 1 <= Len(s)
    /\ \A j \in 1..Len(kw) : s[i + j - 1] = kw[j]

\* Python: kw in s
Contains(s, kw) == \E i \in 1..(Len(s) - Len(kw) + 1) : IsPrefixAt(s, kw, i)

\* Python: any(kw in s for kw in kws)
ContainsAny(s, kws) == \E kw \in kws : Contains(s, kw)

\* Python: s.startswith(p)
StartsWith(s, p) == IsPrefixAt(s, p, 1)

\* Python: s.strip(): blanks and line breaks go from both ends
RECURSIVE Strip(_)
Strip(s) ==
    IF s # <<>> /\ Head(s) \in {" ", "\n"} THEN Strip(Tail(s))
    ELSE IF s # <<>> /\ s[Len(s)] \in {" ", "\n"} THEN Strip(SubSeq(s, 1, Len(s) - 1))
    ELSE s

\* Python: s.replace(old, new), old non-empty
RECURSIVE Replace(_, _, _)
Replace(s, old, new) ==
    IF s = <<>> THEN <<>>
    ELSE IF IsPrefixAt(s, old, 1)
         THEN new \o Replace(SubSeq(s, Len(old) + 1, Len(s)), old, new)
         ELSE <<Head(s)>> \o Replace(Tail(s), old, new)

\* re.sub(r"[^\d]", "", s) and re.sub(r'[^0-9]', '', s)
OnlyDigits(s) == SelectSeq(s, LAMBDA c : c \in Digits)

\* Python: s.lower(), for the Latin letters the modelled inputs use
Lower(s) ==
    LET LowerChar(c) ==
            CASE c = "B" -> "b"
              [] c = "F" -> "f"
              [] c = "P" -> "p"
              [] c = "C" -> "c"
              [] OTHER -> c
    IN [i \in 1..Len(s) |-> LowerChar(s[i])]

RECURSIVE NatToStr(_)
NatToStr(n) ==
    IF n < 10 THEN <<DigitChars[n + 1]>>
    ELSE NatToStr(n \div 10) \o <<DigitChars[(n % 10) + 1]>>

\* Python: str(n) for an int
IntToStr(n) == IF n < 0 THEN <<"-">> \o NatToStr(-n) ELSE NatToStr(n)

\* Python: ', '.join(list)
RECURSIVE JoinComma(_)
JoinComma(l) ==
    IF l = <<>> THEN <<>>
    ELSE IF Len(l) = 1 THEN l[1]
    ELSE l[1] \o <<",", " ">> \o JoinComma(Tail(l))

(***************************************************************************)
(* String constants of the source.                                         *)
(***************************************************************************)
S_ho == <<"ho">>                                   \* '호'
S_jiha == <<"ji", "ha">>                            \* '지하'
S_jisang == <<"ji", "sang">>                        \* '지상'
S_cheung == <<"cheung">>                            \* '층'
S_jeonyu == <<"jeon", "yu">>                        \* '전유'
S_gongyong == <<"gong", "yong">>                    \* '공용'

(***************************************************************************)
(* match_floor: does the registry floor string denote the listing's floor  *)
(***************************************************************************)
match_floor(search_floor, registry_floor_str) ==
    IF registry_floor_str = <<>> THEN FALSE
    ELSE
      LET fs == Strip(registry_floor_str)
          ss == IntToStr(search_floor)
          fn == OnlyDigits(fs)
          sn == NatToStr(Abs(search_floor))
          below == Contains(fs, S_jiha) \/ Contains(fs, <<"B">>) \/ Contains(fs, <<"b">>)
          ssCheung == ss \o S_cheung
      IN IF search_floor < 0
         THEN (IF below THEN fn = sn ELSE FALSE)
         ELSE IF below THEN FALSE
         ELSE IF fs = ss \/ fs = ssCheung \/ fs = ss \o <<"F">> THEN TRUE
         ELSE IF fs = S_jisang \o ss \/ fs = S_jisang \o ssCheung THEN TRUE
         ELSE IF fn = sn
              THEN (IF search_floor = 1
                    THEN Contains(fs, S_jisang) \/ fs = <<"1">>
                    ELSE TRUE)
         ELSE IF StartsWith(fs, ssCheung)
              THEN LET rest == SubSeq(fs, Len(ssCheung) + 1, Len(fs))
                   IN rest = <<>> \/ rest[1] \notin Digits
         ELSE FALSE

(***************************************************************************)
(* parse_floor_string: the signed floor a registry floor string denotes,   *)
(* None (<<>>) when no pattern matches.                                    *)
(***************************************************************************)
\* Python: int(s) for a string of digits
RECURSIVE StrToNat(_)
StrToNat(s) ==
    IF s = <<>> THEN 0
    ELSE 10 * StrToNat(SubSeq(s, 1, Len(s) - 1))
         + (CHOOSE d \in 0..9 : DigitChars[d + 1] = s[Len(s)])

\* \s*: the first position from i that holds no blank
RECURSIVE SkipBlanks(_, _)
SkipBlanks(s, i) == IF i <= Len(s) /\ s[i] = " " THEN SkipBlanks(s, i + 1) ELSE i

\* (\d+): the last position of the run of digits that starts at i
RECURSIVE DigitRunEnd(_, _)
DigitRunEnd(s, i) ==
    IF i + 1 <= Len(s) /\ s[i + 1] \in Digits THEN DigitRunEnd(s, i + 1) ELSE i

\* re.search(prefix + r'\s*(\d+)', s): the digits of the leftmost match, <<>>
\* when there is none
SearchAfter(s, prefix) ==
    LET starts == {i \in 1..Len(s) :
                     /\ IsPrefixAt(s, prefix, i)
                     /\ LET k == SkipBlanks(s, i + Len(prefix))
                        IN k <= Len(s) /\ s[k] \in Digits}
    IN IF starts = {} THEN <<>>
       ELSE LET i == CHOOSE x \in starts : \A y \in starts : x <= y
                k == SkipBlanks(s, i + Len(prefix))
            IN SubSeq(s, k, DigitRunEnd(s, k))

\* re.search(r'(\d+)\s*' + suffix, s) for the suffixes of one pattern (the
\* letter of either case under re.IGNORECASE): the digits of the leftmost match
SearchBefore(s, suffixes) ==
    LET starts == {i \in 1..Len(s) :
                     /\ s[i] \in Digits
                     /\ (i = 1 \/ s[i - 1] \notin Digits)
                     /\ LET k == SkipBlanks(s, DigitRunEnd(s, i) + 1)
                        IN \E suffix \in suffixes : IsPrefixAt(s, suffix, k)}
    IN IF starts = {} THEN <<>>
       ELSE LET i == CHOOSE x \in starts : \A y \in starts : x <= y
            IN SubSeq(s, i, DigitRunEnd(s, i))

parse_floor_string(floor_str0) ==
    IF floor_str0 = <<>> THEN <<>>
    ELSE
      LET floor_str == Strip(floor_str0)
          below == <<SearchAfter(floor_str, S_jiha), SearchAfter(floor_str, <<"B">>),
                     SearchAfter(floor_str, <<"b">>), SearchAfter(floor_str, <<"-">>)>>
          above == <<SearchBefore(floor_str, {S_cheung}),
                     SearchBefore(floor_str, {<<"F">>, <<"f">>}),
                     IF floor_str # <<>> /\ \A i \in DOMAIN floor_str : floor_str[i] \in Digits
                     THEN floor_str ELSE <<>>>>
          firstBelow == SelectSeq(below, LAMBDA m : m # <<>>)
          firstAbove == SelectSeq(above, LAMBDA m : m # <<>>)
      IN IF firstBelow # <<>> THEN <<-StrToNat(firstBelow[1])>>
         ELSE IF Contains(floor_str, S_jisang) /\ SearchAfter(floor_str, S_jisang) # <<>>
         THEN <<StrToNat(SearchAfter(floor_str, S_jisang))>>
         ELSE IF firstAbove # <<>> THEN <<StrToNat(firstAbove[1])>>
         ELSE <<>>

(***************************************************************************)
(* _classify_usage_master: the statutory use category of a raw usage       *)
(* string and an area.  Returns (final_usage, show_usage_warning,          *)
(* show_usage_warning_point) as a record.  area_m2 = 0 stands for an       *)
(* absent (None) or zero area, both falsy in the source.                   *)
(***************************************************************************)
Cm2(n) == n * 100

NEED_USAGE_SELECTION == <<"_", "_", "N", "E", "E", "D", "_", "U", "S", "A", "G", "E", "_", "S", "E", "L", "E", "C", "T", "I", "O", "N", "_", "_">>

U_1jong == <<"je", "1", "jong", " ", "geun", "rin", "saeng", "hwal", "si", "seol">>   \* '제1종 근린생활시설'
U_2jong == <<"je", "2", "jong", " ", "geun", "rin", "saeng", "hwal", "si", "seol">>   \* '제2종 근린생활시설'
U_hwagin == <<"hwak", "in", "yo", "mang">>   \* '확인요망'

Verdict(u, w) == [usage |-> u, warn |-> w, warn_point |-> FALSE]

\* faulty variant of the cutoffs of lines 488-509: the cutoff itself counts as
\* below
Below_Inclusive(area, cutoff) == area <= Cm2(cutoff)

\* area < cutoff, the cutoff in square metres
Below(area, cutoff) == area < Cm2(cutoff)

\* lines 483-509: the keyword groups with an area cutoff
ThresholdStage(usage_lower, area) ==
    IF Contains(usage_lower, <<"so", "mae", "jeom">>)   \* '소매점'
    THEN <<IF Below(area, 1000) THEN U_1jong ELSE <<"pan", "mae", "si", "seol">>>>   \* '판매시설'
    ELSE IF ContainsAny(usage_lower, {<<"hyu", "ge", "eum", "sik", "jeom">>, <<"keo", "pi", "syop">>, <<"je", "gwa", "jeom">>, <<"ka", "pe">>})   \* '휴게음식점' | '커피숍' | '제과점' | '카페'
    THEN <<IF Below(area, 300) THEN U_1jong ELSE U_2jong>>
    ELSE IF Contains(usage_lower, <<"il", "ban", "eum", "sik", "jeom">>)   \* '일반음식점'
    THEN <<U_2jong>>
    ELSE IF Contains(usage_lower, <<"sa", "mu", "so">>)   \* '사무소'
    THEN <<IF Below(area, 30) THEN U_1jong
           ELSE IF Below(area, 500) THEN U_2jong ELSE <<"eop", "mu", "si", "seol">>>>   \* '업무시설'
    ELSE IF ContainsAny(usage_lower, {<<"hak", "won">>, <<"gyo", "seup", "so">>})   \* '학원' | '교습소'
    THEN <<IF Below(area, 500) THEN U_2jong ELSE <<"gyo", "yuk", "yeon", "gu", "si", "seol">>>>   \* '교육연구시설'
    ELSE IF Contains(usage_lower, <<"no", "rae", "yeon", "seup", "jang">>) \/ Contains(usage_lower, <<"no", "rae", "bang">>)   \* '노래연습장' | '노래방'
    THEN <<U_2jong>>
    ELSE IF ContainsAny(usage_lower, {<<"ui", "won">>, <<"chi", "gwa">>, <<"han", "ui", "won">>})   \* '의원' | '치과' | '한의원'
    THEN <<U_1jong>>
    ELSE IF ContainsAny(usage_lower, {<<"i", "yong", "won">>, <<"mi", "yong", "won">>, <<"se", "tak", "so">>, <<"mi", "yong", "sil">>, <<"i", "bal", "so">>})   \* '이용원' | '미용원' | '세탁소' | '미용실' | '이발소'
    THEN <<U_1jong>>
    ELSE IF Contains(usage_lower, <<"che", "yuk", "do", "jang">>) \/ Contains(usage_lower, <<"hel", "seu", "jang">>)   \* '체육도장' | '헬스장'
    THEN <<IF Below(area, 500) THEN U_1jong ELSE <<"un", "dong", "si", "seol">>>>   \* '운동시설'
    ELSE IF Contains(usage_lower, <<"p", "c", "bang">>) \/ Contains(usage_lower, <<"ge", "im", "jang">>)   \* 'pc방' | '게임장'
    THEN <<IF Below(area, 500) THEN U_2jong ELSE <<"wi", "rak", "si", "seol">>>>   \* '위락시설'
    ELSE <<>>

KW_retail == {<<"so", "mae", "jeom">>, <<"syu", "peo", "ma", "kes">>, <<"ma", "teu">>, <<"pyeon", "ui", "jeom">>, <<"sang", "jeom">>, <<"mae", "jang">>, <<"il", "yong", "pum">>}   \* '소매점' | '슈퍼마켓' | '마트' | '편의점' | '상점' | '매장' | '일용품'

KW_cafe == {<<"hyu", "ge", "eum", "sik", "jeom">>, <<"keo", "pi", "syop">>, <<"je", "gwa", "jeom">>, <<"ka", "pe">>}   \* '휴게음식점' | '커피숍' | '제과점' | '카페'

\* lines 525-530: residence types, only without a commercial keyword
ResidenceStage(usage_lower) ==
    LET commercial_keywords ==
            {<<"jeom", "po">>, <<"so", "mae", "jeom">>, <<"syu", "peo", "ma", "kes">>, <<"ma", "teu">>, <<"pyeon", "ui", "jeom">>, <<"sang", "jeom">>, <<"mae", "jang">>,   \* '점포' | '소매점' | '슈퍼마켓' | '마트' | '편의점' | '상점' | '매장'
             <<"sa", "mu", "so">>, <<"sa", "mu", "sil">>, <<"hyu", "ge", "eum", "sik", "jeom">>, <<"il", "ban", "eum", "sik", "jeom">>, <<"ka", "pe">>, <<"keo", "pi", "syop">>,   \* '사무소' | '사무실' | '휴게음식점' | '일반음식점' | '카페' | '커피숍'
             <<"hak", "won">>, <<"gyo", "seup", "so">>, <<"no", "rae", "yeon", "seup", "jang">>, <<"ui", "won">>, <<"byeong", "won">>, <<"mi", "yong", "won">>, <<"i", "yong", "won">>}   \* '학원' | '교습소' | '노래연습장' | '의원' | '병원' | '미용원' | '이용원'
    IN
    IF ContainsAny(usage_lower, commercial_keywords) THEN <<>>
    ELSE IF ContainsAny(usage_lower, {<<"dan", "dok">>, <<"dan", "dok", "ju", "taek">>, <<"da", "jung">>, <<"da", "jung", "ju", "taek">>, <<"da", "ga", "gu">>, <<"da", "ga", "gu", "ju", "taek">>, <<"gong", "gwan">>})   \* '단독' | '단독주택' | '다중' | '다중주택' | '다가구' | '다가구주택' | '공관'
    THEN <<<<"dan", "dok", "ju", "taek">>>>   \* '단독주택'
    ELSE IF ContainsAny(usage_lower, {<<"a", "pa", "teu">>, <<"yeon", "rip">>, <<"yeon", "rip", "ju", "taek">>, <<"da", "se", "dae">>, <<"da", "se", "dae", "ju", "taek">>, <<"gi", "suk", "sa">>, <<"gong", "dong", "ju", "taek">>})   \* '아파트' | '연립' | '연립주택' | '다세대' | '다세대주택' | '기숙사' | '공동주택'
    THEN <<<<"gong", "dong", "ju", "taek">>>>   \* '공동주택'
    ELSE <<>>

\* lines 532-572: first- and second-tier neighbourhood facilities
NeighbourhoodStage(u, area) ==
    IF ContainsAny(u, KW_retail) /\ area < Cm2(1000) THEN <<U_1jong>>
    ELSE IF ContainsAny(u, KW_cafe) /\ area < Cm2(300) THEN <<U_1jong>>
    ELSE IF ContainsAny(u, {<<"i", "yong", "won">>, <<"mi", "yong", "won">>, <<"mok", "yok", "jang">>, <<"se", "tak", "so">>, <<"mi", "yong", "sil">>, <<"i", "bal", "so">>}) THEN <<U_1jong>>   \* '이용원' | '미용원' | '목욕장' | '세탁소' | '미용실' | '이발소'
    ELSE IF ContainsAny(u, {<<"ui", "won">>, <<"chi", "gwa", "ui", "won">>, <<"han", "ui", "won">>, <<"san", "hu", "jo", "ri", "won">>}) THEN <<U_1jong>>   \* '의원' | '치과의원' | '한의원' | '산후조리원'
    ELSE IF ContainsAny(u, {<<"tak", "gu", "jang">>, <<"che", "yuk", "do", "jang">>}) /\ area < Cm2(500) THEN <<U_1jong>>   \* '탁구장' | '체육도장'
    ELSE IF Contains(u, <<"gong", "gong", "eop", "mu", "si", "seol">>) /\ area < Cm2(1000) THEN <<U_1jong>>   \* '공공업무시설'
    ELSE IF ContainsAny(u, {<<"sa", "mu", "so">>, <<"jung", "gae", "sa", "mu", "so">>}) /\ area < Cm2(30) THEN <<U_1jong>>   \* '사무소' | '중개사무소'
    ELSE IF ContainsAny(u, {<<"gong", "yeon", "jang">>, <<"jong", "gyo", "jip", "hoe", "jang">>}) /\ area < Cm2(500) THEN <<U_2jong>>   \* '공연장' | '종교집회장'
    ELSE IF Contains(u, <<"ja", "dong", "cha", "yeong", "eop", "so">>) /\ area < Cm2(1000) THEN <<U_2jong>>   \* '자동차영업소'
    ELSE IF ContainsAny(u, {<<"seo", "jeom">>, <<"sa", "jin", "gwan">>, <<"dong", "mul", "byeong", "won">>}) THEN <<U_2jong>>   \* '서점' | '사진관' | '동물병원'
    ELSE IF ContainsAny(u, {<<"p", "c", "bang">>, <<"ge", "im", "jang">>}) /\ area < Cm2(500) THEN <<U_2jong>>   \* 'pc방' | '게임장'
    ELSE IF ContainsAny(u, KW_cafe) /\ area >= Cm2(300) THEN <<U_2jong>>
    ELSE IF ContainsAny(u, {<<"il", "ban", "eum", "sik", "jeom">>, <<"an", "ma", "si", "sul", "so">>, <<"no", "rae", "yeon", "seup", "jang">>, <<"no", "rae", "bang">>}) THEN <<U_2jong>>   \* '일반음식점' | '안마시술소' | '노래연습장' | '노래방'
    ELSE IF Contains(u, <<"dan", "ran", "ju", "jeom">>) /\ area < Cm2(150) THEN <<U_2jong>>   \* '단란주점'
    ELSE IF ContainsAny(u, {<<"hak", "won">>, <<"gyo", "seup", "so">>}) /\ area < Cm2(500) THEN <<U_2jong>>   \* '학원' | '교습소'
    ELSE IF ContainsAny(u, {<<"un", "dong", "si", "seol">>, <<"che", "yuk", "si", "seol">>}) /\ area < Cm2(500) THEN <<U_2jong>>   \* '운동시설' | '체육시설'
    ELSE IF ContainsAny(u, {<<"sa", "mu", "so">>, <<"jung", "gae", "sa", "mu", "so">>}) /\ Cm2(30) <= area /\ area < Cm2(500) THEN <<U_2jong>>   \* '사무소' | '중개사무소'
    ELSE IF Contains(u, <<"go", "si", "won">>) /\ area < Cm2(500) THEN <<U_2jong>>   \* '고시원'
    ELSE IF ContainsAny(u, {<<"je", "jo", "eop", "so">>, <<"su", "ri", "jeom">>}) /\ area < Cm2(500) THEN <<U_2jong>>   \* '제조업소' | '수리점'
    ELSE <<>>

\* lines 574-632: the remaining broad categories, in the source's order
BroadStage(u, area) ==
    IF \/ (ContainsAny(u, {<<"gong", "yeon", "jang">>, <<"jip", "hoe", "jang">>}) /\ area >= Cm2(300))   \* '공연장' | '집회장'
       \/ (ContainsAny(u, {<<"gwan", "ram", "jang">>}) /\ area >= Cm2(1000))   \* '관람장'
       \/ ContainsAny(u, {<<"jeon", "si", "jang">>, <<"dong", "sik", "mul", "won">>})   \* '전시장' | '동식물원'
    THEN <<<<"mun", "hwa", " ", "mich", " ", "jip", "hoe", "si", "seol">>>>   \* '문화 및 집회시설'
    ELSE IF ContainsAny(u, {<<"jong", "gyo", "jip", "hoe", "jang">>, <<"bong", "an", "dang">>}) /\ area >= Cm2(300)   \* '종교집회장' | '봉안당'
    THEN <<<<"jong", "gyo", "si", "seol">>>>   \* '종교시설'
    ELSE IF \/ ContainsAny(u, {<<"nong", "su", "san", "mul", "do", "mae", "si", "jang">>, <<"dae", "gyu", "mo", "jeom", "po">>})   \* '농수산물도매시장' | '대규모점포'
            \/ (ContainsAny(u, KW_retail) /\ area >= Cm2(1000))
            \/ (ContainsAny(u, {<<"o", "rak", "sil">>, <<"p", "c", "bang">>, <<"ge", "im", "jang">>}) /\ area >= Cm2(500))   \* '오락실' | 'pc방' | '게임장'
    THEN <<<<"pan", "mae", "si", "seol">>>>   \* '판매시설'
    ELSE IF ContainsAny(u, {<<"yeo", "gaek", "ja", "dong", "cha", "teo", "mi", "neol">>, <<"cheol", "do">>, <<"gong", "hang">>, <<"hang", "man", "si", "seol">>})   \* '여객자동차터미널' | '철도' | '공항' | '항만시설'
    THEN <<<<"un", "su", "si", "seol">>>>   \* '운수시설'
    ELSE IF ContainsAny(u, {<<"byeong", "won">>, <<"jong", "hap", "byeong", "won">>, <<"chi", "gwa", "byeong", "won">>, <<"han", "bang", "byeong", "won">>, <<"gyeok", "ri", "byeong", "won">>, <<"jeon", "yeom", "byeong", "won">>, <<"jeong", "sin", "byeong", "won">>, <<"yo", "yang", "so">>})   \* '병원' | '종합병원' | '치과병원' | '한방병원' | '격리병원' | '전염병원' | '정신병원' | '요양소'
    THEN <<<<"ui", "ryo", "si", "seol">>>>   \* '의료시설'
    ELSE IF \/ ContainsAny(u, {<<"hak", "gyo">>, <<"gyo", "yuk", "won">>, <<"yeon", "gu", "so">>, <<"do", "seo", "gwan">>})   \* '학교' | '교육원' | '연구소' | '도서관'
            \/ (Contains(u, <<"sa", "seol", "gang", "seup", "so">>) /\ ~Contains(u, <<"geun", "saeng">>) /\ ~Contains(u, <<"mu", "do">>))   \* '사설강습소' | '근생' | '무도'
    THEN <<<<"gyo", "yuk", "yeon", "gu", "si", "seol">>>>   \* '교육연구시설'
    ELSE IF ContainsAny(u, {<<"a", "dong", "gwan", "ryeon", "si", "seol">>, <<"no", "in", "bok", "ji", "si", "seol">>, <<"sa", "hoe", "bok", "ji", "si", "seol">>})   \* '아동관련시설' | '노인복지시설' | '사회복지시설'
    THEN <<<<"no", "yu", "ja", "si", "seol">>>>   \* '노유자시설'
    ELSE IF ContainsAny(u, {<<"cheong", "so", "nyeon", "su", "ryeon", "gwan">>, <<"su", "ryeon", "won">>, <<"ya", "yeong", "jang">>, <<"yu", "seu", "ho", "seu", "tel">>})   \* '청소년수련관' | '수련원' | '야영장' | '유스호스텔'
    THEN <<<<"su", "ryeon", "si", "seol">>>>   \* '수련시설'
    ELSE IF \/ (ContainsAny(u, {<<"tak", "gu", "jang">>, <<"che", "yuk", "do", "jang">>, <<"bol", "ring", "jang">>}) /\ area >= Cm2(500))   \* '탁구장' | '체육도장' | '볼링장'
            \/ (ContainsAny(u, {<<"che", "yuk", "gwan">>, <<"un", "dong", "jang">>}) /\ area >= Cm2(1000))   \* '체육관' | '운동장'
    THEN <<<<"un", "dong", "si", "seol">>>>   \* '운동시설'
    ELSE IF \/ ContainsAny(u, {<<"guk", "ga", "cheong", "sa">>, <<"ji", "ja", "che", "cheong", "sa">>, <<"o", "pi", "seu", "tel">>})   \* '국가청사' | '지자체청사' | '오피스텔'
            \/ (ContainsAny(u, {<<"geum", "yung", "eop", "so">>, <<"sa", "mu", "so">>}) /\ area >= Cm2(500))   \* '금융업소' | '사무소'
    THEN <<<<"eop", "mu", "si", "seol">>>>   \* '업무시설'
    ELSE IF \/ ContainsAny(u, {<<"ho", "tel">>, <<"yeo", "gwan">>, <<"yeo", "in", "suk">>})   \* '호텔' | '여관' | '여인숙'
            \/ (Contains(u, <<"go", "si", "won">>) /\ area >= Cm2(500))   \* '고시원'
    THEN <<<<"suk", "bak", "si", "seol">>>>   \* '숙박시설'
    ELSE IF \/ ContainsAny(u, {<<"yu", "heung", "eum", "sik", "jeom">>, <<"mu", "do", "jang">>})   \* '유흥음식점' | '무도장'
            \/ (Contains(u, <<"dan", "ran", "ju", "jeom">>) /\ area >= Cm2(150))   \* '단란주점'
    THEN <<<<"wi", "rak", "si", "seol">>>>   \* '위락시설'
    ELSE IF ContainsAny(u, {<<"je", "jo">>, <<"ga", "gong">>, <<"su", "ri">>}) /\ area >= Cm2(500)   \* '제조' | '가공' | '수리'
    THEN <<<<"gong", "jang">>>>   \* '공장'
    ELSE IF ContainsAny(u, {<<"il", "ban", "chang", "go">>, <<"naeng", "jang", "chang", "go">>, <<"naeng", "dong", "chang", "go">>, <<"mul", "ryu", "teo", "mi", "neol">>})   \* '일반창고' | '냉장창고' | '냉동창고' | '물류터미널'
    THEN <<<<"chang", "go", "si", "seol">>>>   \* '창고시설'
    ELSE IF ContainsAny(u, {<<"ju", "yu", "so">>, <<"seok", "yu", "pan", "mae", "so">>, <<"aek", "hwa", "ga", "seu", "chung", "jeon", "so">>, <<"wi", "heom", "mul", "je", "jo", "so">>})   \* '주유소' | '석유판매소' | '액화가스충전소' | '위험물제조소'
    THEN <<<<"wi", "heom", "mul", " ", "jeo", "jang", " ", "mich", " ", "cheo", "ri", "si", "seol">>>>   \* '위험물 저장 및 처리시설'
    ELSE IF ContainsAny(u, {<<"ju", "cha", "jang">>, <<"se", "cha", "jang">>, <<"pye", "cha", "jang">>, <<"geom", "sa", "jang">>, <<"jeong", "bi", "gong", "jang">>, <<"jeong", "bi", "hak", "won">>})   \* '주차장' | '세차장' | '폐차장' | '검사장' | '정비공장' | '정비학원'
    THEN <<<<"ja", "dong", "cha", " ", "gwan", "ryeon", "si", "seol">>>>   \* '자동차 관련시설'
    ELSE IF ContainsAny(u, {<<"chuk", "sa">>, <<"do", "chuk", "jang">>, <<"jak", "mul", "jae", "bae", "sa">>, <<"jong", "myo", "bae", "yang", "si", "seol">>, <<"on", "sil">>})   \* '축사' | '도축장' | '작물재배사' | '종묘배양시설' | '온실'
    THEN <<<<"dong", "mul", " ", "mich", " ", "sik", "mul", " ", "gwan", "ryeon", "si", "seol">>>>   \* '동물 및 식물 관련시설'
    ELSE IF ContainsAny(u, {<<"go", "mul", "sang">>, <<"pye", "gi", "mul", "jae", "hwal", "yong">>, <<"pye", "gi", "mul", "gam", "ryang", "hwa">>})   \* '고물상' | '폐기물재활용' | '폐기물감량화'
    THEN <<<<"bun", "nyo", " ", "mich", " ", "sseu", "re", "gi", " ", "cheo", "ri", "si", "seol">>>>   \* '분뇨 및 쓰레기 처리시설'
    ELSE IF ContainsAny(u, {<<"gyo", "jeong", "si", "seol">>, <<"so", "nyeon", "won">>, <<"guk", "bang", "si", "seol">>, <<"gun", "sa", "si", "seol">>})   \* '교정시설' | '소년원' | '국방시설' | '군사시설'
    THEN <<<<"gyo", "jeong", " ", "mich", " ", "gun", "sa", "si", "seol">>>>   \* '교정 및 군사시설'
    ELSE IF ContainsAny(u, {<<"bang", "song", "guk">>, <<"chwal", "yeong", "so">>, <<"tong", "sin", "yong", "si", "seol">>})   \* '방송국' | '촬영소' | '통신용시설'
    THEN <<<<"bang", "song", "tong", "sin", "si", "seol">>>>   \* '방송통신시설'
    ELSE IF Contains(u, <<"bal", "jeon", "so">>)   \* '발전소'
    THEN <<<<"bal", "jeon", "si", "seol">>>>   \* '발전시설'
    ELSE IF \/ (ContainsAny(u, {<<"hwa", "jang", "si", "seol">>, <<"bong", "an", "dang">>}) /\ ~Contains(u, <<"jong", "gyo", "si", "seol">>))   \* '화장시설' | '봉안당' | '종교시설'
            \/ ContainsAny(u, {<<"myo", "ji", "bu", "su", "geon", "chuk", "mul">>})   \* '묘지부수건축물'
    THEN <<<<"myo", "ji", " ", "gwan", "ryeon", " ", "si", "seol">>>>   \* '묘지 관련 시설'
    ELSE IF ContainsAny(u, {<<"ya", "oe", "eum", "ak", "dang">>, <<"ya", "oe", "geuk", "jang">>, <<"eo", "rin", "i", "hoe", "gwan">>, <<"hyu", "ge", "so">>})   \* '야외음악당' | '야외극장' | '어린이회관' | '휴게소'
    THEN <<<<"gwan", "gwang", " ", "hyu", "ge", "si", "seol">>>>   \* '관광 휴게시설'
    ELSE IF Contains(u, <<"jang", "rye", "sik", "jang">>)   \* '장례식장'
    THEN <<<<"jang", "rye", "sik", "jang">>>>   \* '장례식장'
    ELSE <<>>

\* faulty variant of lines 477-480: only the phrases written without a space
\* are recognised
TierPhrase_NoSpace(api_usage_str) ==
    IF Contains(api_usage_str, <<"je", "1", "jong", "geun", "rin", "saeng", "hwal", "si", "seol">>) THEN <<U_1jong>>   \* '제1종근린생활시설'
    ELSE IF Contains(api_usage_str, <<"je", "2", "jong", "geun", "rin", "saeng", "hwal", "si", "seol">>) THEN <<U_2jong>>   \* '제2종근린생활시설'
    ELSE <<>>

\* lines 477-480: the category a first-tier or second-tier phrase names, the
\* first tier looked for first; <<>> when the string holds neither
TierPhrase(api_usage_str) ==
    IF \/ Contains(api_usage_str, <<"je", "1", "jong", "geun", "rin", "saeng", "hwal", "si", "seol">>)   \* '제1종근린생활시설'
       \/ Contains(api_usage_str, <<"je", "1", "jong", " ", "geun", "rin", "saeng", "hwal", "si", "seol">>)   \* '제1종 근린생활시설'
    THEN <<U_1jong>>
    ELSE IF \/ Contains(api_usage_str, <<"je", "2", "jong", "geun", "rin", "saeng", "hwal", "si", "seol">>)   \* '제2종근린생활시설'
            \/ Contains(api_usage_str, <<"je", "2", "jong", " ", "geun", "rin", "saeng", "hwal", "si", "seol">>)   \* '제2종 근린생활시설'
    THEN <<U_2jong>>
    ELSE <<>>

_classify_usage_master(api_usage_str0, area_m2) ==
    LET api_usage_str == Replace(api_usage_str0, <<"sa", "mu", "sil">>, <<"sa", "mu", "so">>)   \* '사무실' | '사무소'
        given == api_usage_str # <<>>
        usage_lower == Lower(api_usage_str)
        tier == TierPhrase(api_usage_str)
        t == ThresholdStage(usage_lower, area_m2)
        r == ResidenceStage(usage_lower)
        n == NeighbourhoodStage(usage_lower, area_m2)
        b == BroadStage(usage_lower, area_m2)
    IN  IF given /\ (\/ Contains(api_usage_str, <<"jeom", "po", " ", "mich", " ", "ju", "taek">>)   \* '점포 및 주택'
                     \/ Contains(api_usage_str, <<"ju", "taek", " ", "mich", " ", "jeom", "po">>)   \* '주택 및 점포'
                     \/ (/\ Contains(api_usage_str, <<"jeom", "po">>)   \* '점포'
                         /\ Contains(api_usage_str, <<"ju", "taek">>)   \* '주택'
                         /\ Contains(api_usage_str, <<"mich">>)))   \* '및'
        THEN Verdict(api_usage_str, TRUE)
        ELSE IF given /\ Strip(api_usage_str) = <<"jeom", "po">>   \* '점포'
        THEN Verdict(NEED_USAGE_SELECTION, FALSE)
        ELSE IF given /\ tier # <<>> THEN Verdict(tier[1], FALSE)
        ELSE IF given /\ area_m2 # 0 /\ t # <<>> THEN Verdict(t[1], FALSE)
        ELSE IF ~given \/ area_m2 = 0 THEN Verdict(U_hwagin, FALSE)
        ELSE IF r # <<>> THEN Verdict(r[1], FALSE)
        ELSE IF n # <<>> THEN Verdict(n[1], FALSE)
        ELSE IF b # <<>> THEN Verdict(b[1], FALSE)
        ELSE Verdict(api_usage_str, TRUE)

\* the categories _classify_usage_master returns by name (every literal of its
\* return statements but the two sentinels)
CategorySet ==
    {<<"je", "1", "jong", " ", "geun", "rin", "saeng", "hwal", "si", "seol">>,   \* '제1종 근린생활시설'
     <<"je", "2", "jong", " ", "geun", "rin", "saeng", "hwal", "si", "seol">>,   \* '제2종 근린생활시설'
     <<"pan", "mae", "si", "seol">>,   \* '판매시설'
     <<"eop", "mu", "si", "seol">>,   \* '업무시설'
     <<"gyo", "yuk", "yeon", "gu", "si", "seol">>,   \* '교육연구시설'
     <<"un", "dong", "si", "seol">>,   \* '운동시설'
     <<"wi", "rak", "si", "seol">>,   \* '위락시설'
     <<"dan", "dok", "ju", "taek">>,   \* '단독주택'
     <<"gong", "dong", "ju", "taek">>,   \* '공동주택'
     <<"mun", "hwa", " ", "mich", " ", "jip", "hoe", "si", "seol">>,   \* '문화 및 집회시설'
     <<"jong", "gyo", "si", "seol">>,   \* '종교시설'
     <<"un", "su", "si", "seol">>,   \* '운수시설'
     <<"ui", "ryo", "si", "seol">>,   \* '의료시설'
     <<"no", "yu", "ja", "si", "seol">>,   \* '노유자시설'
     <<"su", "ryeon", "si", "seol">>,   \* '수련시설'
     <<"suk", "bak", "si", "seol">>,   \* '숙박시설'
     <<"gong", "jang">>,   \* '공장'
     <<"chang", "go", "si", "seol">>,   \* '창고시설'
     <<"wi", "heom", "mul", " ", "jeo", "jang", " ", "mich", " ", "cheo", "ri", "si", "seol">>,   \* '위험물 저장 및 처리시설'
     <<"ja", "dong", "cha", " ", "gwan", "ryeon", "si", "seol">>,   \* '자동차 관련시설'
     <<"dong", "mul", " ", "mich", " ", "sik", "mul", " ", "gwan", "ryeon", "si", "seol">>,   \* '동물 및 식물 관련시설'
     <<"bun", "nyo", " ", "mich", " ", "sseu", "re", "gi", " ", "cheo", "ri", "si", "seol">>,   \* '분뇨 및 쓰레기 처리시설'
     <<"gyo", "jeong", " ", "mich", " ", "gun", "sa", "si", "seol">>,   \* '교정 및 군사시설'
     <<"bang", "song", "tong", "sin", "si", "seol">>,   \* '방송통신시설'
     <<"bal", "jeon", "si", "seol">>,   \* '발전시설'
     <<"myo", "ji", " ", "gwan", "ryeon", " ", "si", "seol">>,   \* '묘지 관련 시설'
     <<"gwan", "gwang", " ", "hyu", "ge", "si", "seol">>,   \* '관광 휴게시설'
     <<"jang", "rye", "sik", "jang">>}   \* '장례식장'

\* the sentinels: the storefront that needs the caller's choice, and
\* 'needs confirmation'
Sentinels == {NEED_USAGE_SELECTION, U_hwagin}
(***************************************************************************)
(* Data of one request.  The parser, the address resolver and the registry *)
(* client are collaborators outside this module: the parsed listing and    *)
(* the registry's records are inputs.                                      *)
(*   listing: the record KakaoPropertyParser.parse returns; floor = 0,     *)
(*     ho = <<>>, dong = <<>>, area_m2 = 0 stand for an absent field       *)
(*     (None), which the source tests by truthiness; code_ok says whether  *)
(*     parse_address returns both sigungu_code and bjdong_code.            *)
(*   An optional value (None or v) is <<>> or <<v>>.                       *)
(***************************************************************************)
None == <<>>

Some(v) == <<v>>

\* largest number of buildings one title lookup returns
MaxBuildings == 2

\* largest unit index a caller supplies
MaxUnitIdx == 2

Building(pk, dongNm) == [mgmBldrgstPk |-> pk, dongNm |-> dongNm]

AreaRec(hoNm, flrNoNm, expos, area, mainPurps, etcPurps, exclArea) ==
    [hoNm |-> hoNm, flrNoNm |-> flrNoNm, exposPubuseGbCdNm |-> expos, area |-> area,
     mainPurpsCdNm |-> mainPurps, etcPurps |-> etcPurps, exclArea |-> exclArea]

FloorRec(flrNoNm, area, mainPurps, etcPurps) ==
    [flrNoNm |-> flrNoNm, area |-> area, mainPurpsCdNm |-> mainPurps, etcPurps |-> etcPurps]

(***************************************************************************)
(* The registry's content: five buildings at the listing's address.        *)
(*   P1: two exclusive units 101호 / 102 and a common-area record on 1층   *)
(*   P2: two exclusive units whose labels both normalise to 101            *)
(*   P3: no unit-area records; two floor records on 1층, one on 2층        *)
(*   P4: one exclusive unit, a bare storefront                             *)
(*   P5: a title record without mgmBldrgstPk                               *)
(***************************************************************************)
RegistryBuildings ==
    {Building("P1", <<"1", "0", "1", "dong">>), Building("P2", <<"1", "0", "2", "dong">>), Building("P3", <<>>),   \* '101동' | '102동'
     Building("P4", <<"1", "0", "1", "dong">>), Building("", <<"1", "0", "2", "dong">>)}   \* '101동' | '102동'

get_unit_area_data(pk) ==
    CASE pk = "P1" ->
           <<AreaRec(<<"1", "0", "1", "ho">>, <<"1", "cheung">>, <<"jeon", "yu">>, 3000, <<"so", "mae", "jeom">>, <<>>, 0),   \* '101호' | '1층' | '전유' | '소매점'
             AreaRec(<<"1", "0", "2">>, <<"1", "cheung">>, <<"jeon", "yu">>, 2000, <<"sa", "mu", "so">>, <<>>, 0),   \* '1층' | '전유' | '사무소'
             AreaRec(<<"1", "0", "1", "ho">>, <<"1", "cheung">>, <<"gong", "yong">>, 500, <<"gye", "dan", "sil">>, <<>>, 0)>>   \* '101호' | '1층' | '공용' | '계단실'
      [] pk = "P2" ->
           <<AreaRec(<<"1", "0", "1", "ho">>, <<"ji", "sang", "1">>, <<"jeon", "yu">>, 2500, <<"jeom", "po">>, <<>>, 0),   \* '101호' | '지상1' | '전유' | '점포'
             AreaRec(<<"1", "0", "1">>, <<"ji", "sang", "1">>, <<"jeon", "yu">>, 2500, <<"jeom", "po">>, <<"so", "mae", "jeom">>, 0)>>   \* '지상1' | '전유' | '점포' | '소매점'
      [] pk = "P4" ->
           <<AreaRec(<<"1", "0", "1", "ho">>, <<"1", "cheung">>, <<"jeon", "yu">>, 5000, <<"jeom", "po">>, <<>>, 5000),   \* '101호' | '1층' | '전유' | '점포'
             AreaRec(<<"2", "0", "1", "ho">>, <<"2", "cheung">>, <<"jeon", "yu">>, 5000, <<"il", "ban", "eum", "sik", "jeom">>, <<>>, 0)>>   \* '201호' | '2층' | '전유' | '일반음식점'
      [] OTHER -> <<>>

get_floor_data(pk) ==
    CASE pk = "P1" -> <<FloorRec(<<"1", "cheung">>, 5500, <<"je", "1", "jong", "geun", "rin", "saeng", "hwal", "si", "seol">>, <<"so", "mae", "jeom">>)>>   \* '1층' | '제1종근린생활시설' | '소매점'
      [] pk = "P2" -> <<FloorRec(<<"ji", "sang", "1">>, 5000, <<"jeom", "po">>, <<>>)>>   \* '지상1' | '점포'
      [] pk = "P3" ->
           <<FloorRec(<<"1", "cheung">>, 4000, <<"jeom", "po">>, <<>>),   \* '1층' | '점포'
             FloorRec(<<"1", "cheung">>, 1000, <<"ju", "taek">>, <<>>),   \* '1층' | '주택'
             FloorRec(<<"2", "cheung">>, 5000, <<"sa", "mu", "so">>, <<>>)>>   \* '2층' | '사무소'
      [] pk = "P4" ->
           <<FloorRec(<<"1", "cheung">>, 5000, <<"jeom", "po">>, <<>>),   \* '1층' | '점포'
             FloorRec(<<"2", "cheung">>, 5000, <<"il", "ban", "eum", "sik", "jeom">>, <<>>)>>   \* '2층' | '일반음식점'
      [] OTHER -> <<>>

\* a registry answer {success, data}; pk records which building it was asked for
ApiResult(pk, data) == [success |-> TRUE, data |-> data, pk |-> pk]

get_floor_info(pk) == ApiResult(pk, get_floor_data(pk))

get_unit_area_info(pk) == ApiResult(pk, get_unit_area_data(pk))

get_unit_info(pk) == ApiResult(pk, <<>>)

\* result and result.get('success') and result.get('data')
HasData(res) == res # None /\ res[1].success /\ res[1].data # <<>>

DataOf(res) == res[1].data

\* what get_title_info returns: failure, an empty data set, or the buildings
TitleResults ==
    LET \* sequences without repetition of length 1..n over S
        InjSeqs(S, n) ==
            UNION {{q \in [1..k -> S] : \A i, j \in 1..k : i # j => q[i] # q[j]} :
                     k \in 1..n}
    IN {[success |-> FALSE, data |-> <<>>], [success |-> TRUE, data |-> <<>>]}
         \cup {[success |-> TRUE, data |-> l] :
                 l \in InjSeqs(RegistryBuildings, MaxBuildings)}

Listings ==
    {[address |-> FALSE, code_ok |-> FALSE, floor |-> 0, ho |-> <<>>, dong |-> <<>>, area_m2 |-> 0,
      actual_area_m2 |-> 0],
     [address |-> TRUE, code_ok |-> FALSE, floor |-> 0, ho |-> <<>>, dong |-> <<>>, area_m2 |-> 0,
      actual_area_m2 |-> 0]}
      \cup [address : {TRUE}, code_ok : {TRUE}, floor : {0, 1},
            ho : {<<>>, <<"1", "0", "1", "ho">>}, dong : {<<>>, <<"1", "0", "1", "dong">>}, area_m2 : {0, 5000},   \* '101호' | '101동'
            actual_area_m2 : {0}]

(***************************************************************************)
(* Helpers of the pipeline.                                                *)
(***************************************************************************)
\* str(ho).replace('호', '').strip()
NormHo(ho) == Strip(Replace(ho, S_ho, <<>>))

\* floor if floor else 1
SearchFloor(floor) == IF floor # 0 THEN floor ELSE 1

\* expos and '전유' in expos
IsExclusive(ai) == Contains(ai.exposPubuseGbCdNm, S_jeonyu)

\* faulty variant of lines 352-354: the labels are compared as they are written
_filter_buildings_by_dong_ExactLabel(blds, dong) ==
    SelectSeq(blds, LAMBDA bld : Strip(bld.dongNm) # <<>> /\ Strip(bld.dongNm) = dong)

_filter_buildings_by_dong(blds, dong) ==
    LET input_dong_num == OnlyDigits(dong)
        Keep(bld) ==
            LET bld_dong == Strip(bld.dongNm)
                api_dong_num == OnlyDigits(bld_dong)
            IN /\ bld_dong # <<>>
               /\ input_dong_num # <<>>
               /\ api_dong_num # <<>>
               /\ input_dong_num = api_dong_num
    IN SelectSeq(blds, Keep)

\* lines 163-167: the lookup's data, narrowed by the listing's wing label
FilterLookup(blds, dong) ==
    IF dong # <<>> /\ Len(blds) > 1
    THEN LET filtered == _filter_buildings_by_dong(blds, dong)
         IN IF filtered # <<>> THEN filtered ELSE blds
    ELSE blds

\* a candidate of the unit step
Unit(ho, area, main_usage, etc_usage, floor) ==
    [ho |-> ho, area |-> area, main_usage |-> main_usage, etc_usage |-> etc_usage,
     floor |-> floor]

_get_all_units_from_floor_result(floor_result, floor) ==
    IF ~HasData(floor_result) THEN <<>>
    ELSE LET hit == SelectSeq(DataOf(floor_result),
                              LAMBDA fi : /\ match_floor(SearchFloor(floor), Strip(fi.flrNoNm))
                                          /\ fi.area > 0)
         IN [i \in 1..Len(hit) |->
               Unit(<<>>, hit[i].area, hit[i].mainPurpsCdNm, hit[i].etcPurps,
                    Strip(hit[i].flrNoNm))]

\* faulty variant of lines 981-983: the 전유 test is left out
_get_all_units_on_floor_AnyRecord(area_result, floor, floor_result) ==
    LET hit == IF HasData(area_result)
               THEN SelectSeq(DataOf(area_result),
                              LAMBDA ai : /\ match_floor(SearchFloor(floor), Strip(ai.flrNoNm))
                                          /\ ai.area > 0)
               ELSE <<>>
        units == [i \in 1..Len(hit) |->
                    Unit(hit[i].hoNm, hit[i].area, hit[i].mainPurpsCdNm, hit[i].etcPurps,
                         Strip(hit[i].flrNoNm))]
    IN IF units = <<>> /\ floor_result # None
       THEN _get_all_units_from_floor_result(floor_result, floor)
       ELSE units

_get_all_units_on_floor(area_result, floor, floor_result) ==
    LET hit == IF HasData(area_result)
               THEN SelectSeq(DataOf(area_result),
                              LAMBDA ai : /\ IsExclusive(ai)
                                          /\ match_floor(SearchFloor(floor), Strip(ai.flrNoNm))
                                          /\ ai.area > 0)
               ELSE <<>>
        units == [i \in 1..Len(hit) |->
                    Unit(hit[i].hoNm, hit[i].area, hit[i].mainPurpsCdNm, hit[i].etcPurps,
                         Strip(hit[i].flrNoNm))]
    IN IF units = <<>> /\ floor_result # None
       THEN _get_all_units_from_floor_result(floor_result, floor)
       ELSE units

\* the indices (from 0) of the candidates whose label matches the listing's
MatchedHo(input_ho, all_units) ==
    LET normalized == NormHo(input_ho)
    IN {idx \in 0..(Len(all_units) - 1) :
          LET unit_ho == NormHo(all_units[idx + 1].ho)
          IN normalized = unit_ho \/ Lower(normalized) = Lower(unit_ho)}

\* faulty variant of line 388: the first match is taken when several match
_auto_match_ho_FirstMatch(input_ho, all_units) ==
    IF input_ho = <<>> THEN None
    ELSE LET matched == MatchedHo(input_ho, all_units)
         IN IF matched # {}
            THEN Some(CHOOSE idx \in matched : \A other \in matched : idx <= other)
            ELSE None

\* None, or the index of the only candidate that matches
_auto_match_ho(input_ho, all_units) ==
    IF input_ho = <<>> THEN None
    ELSE LET matched == MatchedHo(input_ho, all_units)
         IN IF Cardinality(matched) = 1 THEN Some(CHOOSE idx \in matched : TRUE) ELSE None

\* faulty variant of line 226: the first candidate's area for the floor's
SumAreas_First(units) == IF units = <<>> THEN 0 ELSE Head(units).area

RECURSIVE SumAreas(_)
SumAreas(units) == IF units = <<>> THEN 0 ELSE Head(units).area + SumAreas(Tail(units))

\* recommended: "" (None), "total", or "unit" with the index in recommended_idx
_compare_unit_areas(kakao_area, units) ==
    LET total_area == SumAreas(units)
        near == {idx \in 0..(Len(units) - 1) : DiffBelowTenth(units[idx + 1].area, kakao_area)}
        first == CHOOSE idx \in near : \A other \in near : idx <= other
    IN IF kakao_area # 0 /\ DiffBelowTenth(total_area, kakao_area)
       THEN [total_area |-> total_area, recommended |-> "total", recommended_idx |-> 0,
             match_total |-> TRUE]
       ELSE IF kakao_area # 0 /\ near # {}
       THEN [total_area |-> total_area, recommended |-> "unit", recommended_idx |-> first,
             match_total |-> FALSE]
       ELSE [total_area |-> total_area, recommended |-> "", recommended_idx |-> 0,
             match_total |-> FALSE]

(***************************************************************************)
(* _get_unit_area_and_usage: scan of the unit-area records for the         *)
(* listing's unit label; (unit_area, unit_usage), 0 and <<>> for None.     *)
(***************************************************************************)
RECURSIVE UnitScan(_, _, _, _)
UnitScan(data, ho_normalized, unit_area, unit_usage) ==
    IF data = <<>> THEN [unit_area |-> unit_area, unit_usage |-> unit_usage, returned |-> FALSE]
    ELSE LET ai == Head(data)
             area2 == IF ai.area # 0 THEN ai.area ELSE unit_area
             usage1 == IF ai.mainPurpsCdNm # <<>> THEN Strip(ai.mainPurpsCdNm) ELSE unit_usage
             usage2 == IF usage1 = <<>> /\ ai.etcPurps # <<>> THEN Strip(ai.etcPurps) ELSE usage1
         IN IF ho_normalized = NormHo(ai.hoNm) /\ IsExclusive(ai)
            THEN IF area2 > 0
                 THEN [unit_area |-> area2, unit_usage |-> usage2, returned |-> TRUE]
                 ELSE UnitScan(Tail(data), ho_normalized, area2, usage2)
            ELSE UnitScan(Tail(data), ho_normalized, unit_area, unit_usage)

\* lines 1064-1072: the floor overview's usage when the scan found no area
RECURSIVE FloorUsageScan(_, _, _)
FloorUsageScan(data, search_floor, unit_usage) ==
    IF data = <<>> THEN unit_usage
    ELSE LET fi == Head(data)
             mu == fi.mainPurpsCdNm
         IN FloorUsageScan(Tail(data), search_floor,
              IF match_floor(search_floor, Strip(fi.flrNoNm)) /\ mu # <<>> /\ unit_usage = <<>>
              THEN Strip(mu) ELSE unit_usage)

_get_unit_area_and_usage(ho, area_result, floor_result, floor) ==
    IF ho = <<>> \/ ~HasData(area_result) THEN [unit_area |-> 0, unit_usage |-> <<>>]
    ELSE LET s == UnitScan(DataOf(area_result), NormHo(ho), 0, <<>>)
         IN IF s.returned THEN [unit_area |-> s.unit_area, unit_usage |-> s.unit_usage]
            ELSE IF s.unit_area = 0 /\ HasData(floor_result)
            THEN [unit_area |-> s.unit_area,
                  unit_usage |-> FloorUsageScan(DataOf(floor_result), SearchFloor(floor),
                                                s.unit_usage)]
            ELSE [unit_area |-> s.unit_area, unit_usage |-> s.unit_usage]

\* the index of the first TRUE of hit, 0 when there is none: where a loop
\* that stops at its first hit stops
FirstIndex(hit) ==
    IF \E i \in 1..Len(hit) : hit[i]
    THEN CHOOSE i \in 1..Len(hit) : hit[i] /\ \A j \in 1..(i - 1) : ~hit[j]
    ELSE 0

\* lines 844-863: the area the classifier is given
_get_area_for_usage(area_result, floor, parsed) ==
    LET data == IF HasData(area_result) THEN DataOf(area_result) ELSE <<>>
        i == FirstIndex([n \in 1..Len(data) |->
                           /\ match_floor(SearchFloor(floor), Strip(data[n].flrNoNm))
                           /\ data[n].exclArea > 0])
    IN IF i # 0 THEN data[i].exclArea
       ELSE IF parsed.area_m2 # 0 THEN parsed.area_m2
       ELSE parsed.actual_area_m2

\* x appended to l unless it is empty or already there
AppendNew(l, x) ==
    IF x # <<>> /\ \A i \in 1..Len(l) : l[i] # x THEN Append(l, x) ELSE l

\* lines 784-795: the usages of the floor overview's records on the floor
RECURSIVE FloorUsages(_, _, _, _)
FloorUsages(data, search_floor, api_usage_list, etc_usage_list) ==
    IF data = <<>> THEN [api |-> api_usage_list, etc |-> etc_usage_list]
    ELSE LET fi == Head(data)
         IN IF match_floor(search_floor, Strip(fi.flrNoNm))
            THEN FloorUsages(Tail(data), search_floor,
                             AppendNew(api_usage_list, fi.mainPurpsCdNm),
                             AppendNew(etc_usage_list, fi.etcPurps))
            ELSE FloorUsages(Tail(data), search_floor, api_usage_list, etc_usage_list)

\* lines 826-834: the string handed to the classifier
usage_str_for_classify(api_usage, etc_usage) ==
    LET api_usage_str == Replace(api_usage, <<"sa", "mu", "sil">>, <<"sa", "mu", "so">>)   \* '사무실' | '사무소'
        etc_usage_str == Replace(etc_usage, <<"sa", "mu", "sil">>, <<"sa", "mu", "so">>)   \* '사무실' | '사무소'
    IN IF etc_usage_str # <<>> /\ (\/ Contains(etc_usage_str, <<"geun", "rin", "saeng", "hwal", "si", "seol">>)   \* '근린생활시설'
                                   \/ Contains(etc_usage_str, <<"je", "1", "jong">>)   \* '제1종'
                                   \/ Contains(etc_usage_str, <<"je", "2", "jong">>))   \* '제2종'
       THEN etc_usage_str
       ELSE IF etc_usage_str = <<>> THEN api_usage_str
       ELSE IF api_usage_str # <<>> THEN api_usage_str \o <<",", " ">> \o etc_usage_str
       ELSE etc_usage_str

_judge_usage(bld, parsed, floor_result, floor, area_result) ==
    LET ho == parsed.ho
        search_floor == SearchFloor(floor)
        fromUnit == IF ho # <<>> /\ HasData(area_result)
                    THEN _get_unit_area_and_usage(ho, area_result, floor_result, floor).unit_usage
                    ELSE <<>>
        \* lines 770-778: etcPurps of the first record with the listing's label
        data == IF HasData(area_result) THEN DataOf(area_result) ELSE <<>>
        k == FirstIndex([n \in 1..Len(data) |-> NormHo(ho) = NormHo(data[n].hoNm)])
        unit_etc == IF fromUnit # <<>> /\ k # 0 /\ data[k].etcPurps # <<>>
                       /\ Strip(data[k].etcPurps) # Strip(fromUnit)
                    THEN Strip(data[k].etcPurps) ELSE <<>>
        api_usage1 == Strip(fromUnit)
        lists == IF api_usage1 = <<>> /\ HasData(floor_result)
                 THEN FloorUsages(DataOf(floor_result), search_floor, <<>>,
                                  IF unit_etc # <<>> THEN <<unit_etc>> ELSE <<>>)
                 ELSE [api |-> IF api_usage1 # <<>> THEN <<api_usage1>> ELSE <<>>,
                       etc |-> IF unit_etc # <<>> THEN <<unit_etc>> ELSE <<>>]
        api_usage == IF api_usage1 # <<>> THEN api_usage1 ELSE JoinComma(lists.api)
        etc_usage == IF unit_etc # <<>> THEN unit_etc ELSE JoinComma(lists.etc)
        area_m2 == _get_area_for_usage(area_result, floor, parsed)
        v == _classify_usage_master(usage_str_for_classify(api_usage, etc_usage), area_m2)
    IN [api_usage |-> api_usage, etc_usage |-> etc_usage, judged_usage |-> v.usage,
        area_m2 |-> area_m2, show_usage_warning |-> v.warn,
        show_usage_warning_point |-> v.warn_point, selected_unit_usage |-> <<>>]

(***************************************************************************)
(* Area comparison.                                                        *)
(***************************************************************************)
_get_floor_area_from_api(floor_result, floor, area_result, ho) ==
    LET adata == IF ho # <<>> /\ HasData(area_result) THEN DataOf(area_result) ELSE <<>>
        i == FirstIndex([n \in 1..Len(adata) |->
                           /\ NormHo(ho) = NormHo(adata[n].hoNm)
                           /\ IsExclusive(adata[n])
                           /\ adata[n].area > 0])
        fdata == IF HasData(floor_result) THEN DataOf(floor_result) ELSE <<>>
        j == FirstIndex([n \in 1..Len(fdata) |->
                           /\ match_floor(SearchFloor(floor), Strip(fdata[n].flrNoNm))
                           /\ fdata[n].area > 0])
    IN IF i # 0 THEN adata[i].area
       ELSE IF j # 0 THEN fdata[j].area
       ELSE 0

\* None when the listing states no area; has_diff tells whether area_diff and
\* area_match are present
_compare_areas(parsed, floor_result, area_result, floor, selected_units_info) ==
    LET kakao_area == parsed.area_m2
        registry_area ==
            IF selected_units_info # None /\ selected_units_info[1].area # 0
            THEN selected_units_info[1].area
            ELSE _get_floor_area_from_api(floor_result, floor, area_result, parsed.ho)
        diff == Abs(registry_area - kakao_area)
        has_diff == registry_area # 0 /\ kakao_area # 0
    IN IF kakao_area = 0 THEN None
       ELSE Some([kakao_area |-> kakao_area, registry_area |-> registry_area,
                  floor |-> floor, ho |-> parsed.ho, has_diff |-> has_diff,
                  area_diff |-> IF has_diff THEN diff ELSE 0,
                  area_match |-> has_diff /\ DiffBelowTenth(registry_area, kakao_area)])


(***************************************************************************)
(* The result text: lines 291-326 of _process_internal, with                *)
(* _generate_blog_text (1079-1245), _assemble_result_text (390-453) and     *)
(* the registry utilities get_approval_date, get_total_floors,              *)
(* get_parking_count and _format_date (639-689).  A text is a sequence of   *)
(* characters that holds "\n" between its lines.                            *)
(***************************************************************************)

\* Python: sep.join(parts)
RECURSIVE Join(_, _)
Join(sep, parts) ==
    IF parts = <<>> THEN <<>>
    ELSE IF Len(parts) = 1 THEN parts[1]
    ELSE parts[1] \o sep \o Join(sep, Tail(parts))

\* Python: f"{n:,}" of a non-negative int
RECURSIVE WithCommas(_)
WithCommas(n) ==
    IF n < 1000 THEN NatToStr(n)
    ELSE LET r == n % 1000
         IN WithCommas(n \div 1000) \o <<",">>
            \o (IF r < 10 THEN <<"0", "0">> ELSE IF r < 100 THEN <<"0">> ELSE <<>>)
            \o NatToStr(r)

\* Python: str(x) of a float of at most two decimals, x in hundredths
FloatToStr(h) ==
    NatToStr(h \div 100) \o <<".">>
    \o (IF h % 10 = 0 THEN NatToStr((h % 100) \div 10)
        ELSE <<DigitChars[((h % 100) \div 10) + 1], DigitChars[(h % 10) + 1]>>)

\* Lines 639-644, with _format_date (685-689).
get_approval_date(building) ==
    LET use_apr_day == IF building.useAprDay # <<>> THEN building.useAprDay
                       ELSE building.pmsDay
        _format_date(date_str) ==
            IF date_str = <<>> \/ Len(date_str) # 8 THEN date_str
            ELSE SubSeq(date_str, 1, 4) \o <<"-">> \o SubSeq(date_str, 5, 6)
                 \o <<"-">> \o SubSeq(date_str, 7, 8)
    IN IF use_apr_day # <<>> /\ Strip(use_apr_day) # <<>>
       THEN _format_date(use_apr_day)
       ELSE <<>>

\* Lines 646-654.  int(s) reads digits after an optional sign and raises
\* ValueError on anything else.
get_total_floors(building) ==
    LET total_floor == IF building.grndFlrCnt # <<>> THEN building.grndFlrCnt
                       ELSE IF building.heit # <<>> THEN building.heit
                       ELSE building.flrCnt
        s == Strip(total_floor)
        d == IF s # <<>> /\ Head(s) \in {"-", "+"} THEN Tail(s) ELSE s
        reads == d # <<>> /\ \A i \in 1..Len(d) : d[i] \in Digits
    IN IF total_floor # <<>> /\ s # <<>> /\ reads
       THEN IF Head(s) = "-" THEN -StrToNat(d) ELSE StrToNat(d)
       ELSE 0

\* Lines 656-683.  int(float(s)) reads digits with an optional sign and an
\* optional fraction, which it drops; float raises ValueError on anything
\* else the modelled records hold.
get_parking_count(building) ==
    LET Trunc(s0) ==
            LET s == Strip(s0)
                d == IF s # <<>> /\ Head(s) \in {"-", "+"} THEN Tail(s) ELSE s
                dots == {i \in 1..Len(d) : d[i] = "."}
                whole == IF dots = {} THEN d
                         ELSE SubSeq(d, 1, (CHOOSE i \in dots : TRUE) - 1)
                frac == IF dots = {} THEN <<>>
                        ELSE SubSeq(d, (CHOOSE i \in dots : TRUE) + 1, Len(d))
                ok == /\ Cardinality(dots) <= 1
                      /\ whole \o frac # <<>>
                      /\ \A i \in 1..Len(whole) : whole[i] \in Digits
                      /\ \A i \in 1..Len(frac) : frac[i] \in Digits
            IN IF ~ok THEN None
               ELSE Some(IF Head(s) = "-" THEN -StrToNat(whole) ELSE StrToNat(whole))
        \* the count a field gives: None when it is empty or does not parse
        Count(field) ==
            IF building[field] # <<>> /\ Strip(building[field]) # <<>>
            THEN Trunc(building[field]) ELSE None
        Added(field) == IF Count(field) = None THEN 0 ELSE Count(field)[1]
        total == Added("indrAutoUtcnt") + Added("oudrAutoUtcnt")
                 + Added("indrMechUtcnt") + Added("oudrMechUtcnt")
    IN IF total > 0 THEN total
       ELSE IF Count("pkngCnt") # None THEN Count("pkngCnt")[1]
       ELSE IF Count("totPkngCnt") # None THEN Count("totPkngCnt")[1]
       ELSE IF Count("indrAutoUtcnt") # None THEN Count("indrAutoUtcnt")[1]
       ELSE 0

\* Lines 1079-1245: the lines of the text.  The collective-building test of
\* lines 1084-1095 sets locals that nothing reads.
_generate_blog_text(parsed, building, floor, usage_judgment, area_comparison) ==
    LET \* line 1100: re.sub(r'\s*\d+\s*층\s*.*$', '', address).strip()
        FloorPartAt(s, i) ==
            LET j == SkipBlanks(s, i)
            IN /\ j <= Len(s)
               /\ s[j] \in Digits
               /\ IsPrefixAt(s, <<"cheung">>, SkipBlanks(s, DigitRunEnd(s, j) + 1))   \* '층'
        WithoutFloorPart(s) ==
            LET starts == {i \in 1..Len(s) : FloorPartAt(s, i)}
            IN IF starts = {} THEN Strip(s)
               ELSE Strip(SubSeq(s, 1, (CHOOSE i \in starts : \A j \in starts : i <= j) - 1))
        \* lines 1102-1104: re.match(r'(.+?\d+(?:-\d+)?(?:번지)?)\s+(.+)', address)
        \* and its group 1; LotNumberEnd is the last position that
        \* r'\d+(?:-\d+)?(?:번지)?' takes from the digit at p
        LotNumberEnd(s, p) ==
            LET r == DigitRunEnd(s, p)
                r2 == IF r + 2 <= Len(s) /\ s[r + 1] = "-" /\ s[r + 2] \in Digits
                      THEN DigitRunEnd(s, r + 2) ELSE r
            IN IF IsPrefixAt(s, <<"beon", "ji">>, r2 + 1) THEN r2 + 2 ELSE r2   \* '번지'
        WithoutBuildingName(s) ==
            LET ends == {p \in 2..Len(s) :
                           /\ s[p] \in Digits
                           /\ LotNumberEnd(s, p) + 2 <= Len(s)
                           /\ s[LotNumberEnd(s, p) + 1] = " "}
            IN IF ends = {} THEN s
               ELSE SubSeq(s, 1, LotNumberEnd(s, CHOOSE p \in ends : \A q \in ends : p <= q))
        \* lines 1106-1109
        cities == {<<"seo", "ul">>, <<"bu", "san">>, <<"dae", "gu">>, <<"in", "cheon">>, <<"gwang", "ju">>, <<"dae", "jeon">>, <<"ul", "san">>, <<"se", "jong">>,   \* '서울' | '부산' | '대구' | '인천' | '광주' | '대전' | '울산' | '세종'
                   <<"gyeong", "gi">>, <<"gang", "won">>, <<"chung", "buk">>, <<"chung", "nam">>, <<"jeon", "buk">>, <<"jeon", "nam">>, <<"gyeong", "buk">>, <<"gyeong", "nam">>, <<"je", "ju">>}   \* '경기' | '강원' | '충북' | '충남' | '전북' | '전남' | '경북' | '경남' | '제주'
        a1 == IF parsed.address = <<>> THEN <<>>
              ELSE WithoutBuildingName(WithoutFloorPart(parsed.address))
        address == IF a1 # <<>> /\ ~ContainsAny(a1, cities) THEN <<"dae", "gu", " ">> \o a1 ELSE a1   \* '대구 '
        \* lines 1112-1115
        location_str == IF parsed.ho = <<>> THEN address
                        ELSE IF address # <<>> THEN address \o <<" ">> \o parsed.ho
                        ELSE parsed.ho
        \* lines 1119-1128
        Marker(name, area) == IF area # 0 THEN <<name \o FloatToStr(area) \o <<"_", "_">>>> ELSE <<>>
        \* lines 1132-1138
        deposit_lines ==
            IF parsed.deposit = None THEN <<>>
            ELSE IF parsed.monthly_rent # None /\ parsed.monthly_rent[1] > 0
            THEN <<<<"bo", "jeung", "geum", "/", "wol", "se", ":", " ">> \o WithCommas(parsed.deposit[1]) \o <<"man", "won", " ", "/", " ">>   \* '보증금/월세: ' | '만원 / '
                   \o WithCommas(parsed.monthly_rent[1]) \o <<"man", "won">>>>   \* '만원'
            ELSE <<<<"bo", "jeung", "geum", "/", "wol", "se", ":", " ">> \o WithCommas(parsed.deposit[1]) \o <<"man", "won">>>>   \* '보증금/월세: ' | '만원'
        \* a line that is written only when the listing gives the value
        Labeled(label, value) == IF value # <<>> THEN <<label \o value>> ELSE <<>>
        \* lines 1156-1160
        total_floors == get_total_floors(building)
        total_floor_line == IF total_floors > 0
                            THEN <<"chong", " ", "cheung", "su", ":", " ">> \o IntToStr(total_floors) \o <<"cheung">>   \* '총 층수: ' | '층'
                            ELSE <<"chong", " ", "cheung", "su", ":", " ", "hwak", "in", "yo", "mang">>   \* '총 층수: 확인요망'
        \* lines 1163-1169
        floor_line == IF floor # 0
                      THEN IF floor < 0 THEN <<"hae", "dang", " ", "cheung", "su", ":", " ", "ji", "ha">> \o NatToStr(-floor) \o <<"cheung">>   \* '해당 층수: 지하' | '층'
                           ELSE <<"hae", "dang", " ", "cheung", "su", ":", " ">> \o NatToStr(floor) \o <<"cheung">>   \* '해당 층수: ' | '층'
                      ELSE <<"hae", "dang", " ", "cheung", "su", ":", " ", "hwak", "in", "yo", "mang">>   \* '해당 층수: 확인요망'
        \* lines 1177-1181
        approval_date == get_approval_date(building)
        approval_line == IF approval_date # <<>> THEN <<"sa", "yong", "seung", "in", "il", ":", " ">> \o approval_date   \* '사용승인일: '
                         ELSE <<"sa", "yong", "seung", "in", "il", ":", " ", "hwak", "in", "yo", "mang">>   \* '사용승인일: 확인요망'
        \* lines 1189-1194
        parking_count == get_parking_count(building)
        parking_lines == IF parsed.parking # <<>> THEN <<<<"ju", "cha", ":", " ">> \o parsed.parking>>   \* '주차: '
                         ELSE IF parking_count > 0
                         THEN <<<<"ju", "cha", ":", " ">> \o IntToStr(parking_count) \o <<"dae">>>>   \* '주차: ' | '대'
                         ELSE <<>>
        \* lines 1207-1231
        vlat_gb_cd_nm == IF building.vlatGbCdNm # <<>> THEN building.vlatGbCdNm
                         ELSE building.vlatGbCd
        violation_keywords == {<<"wi", "ban">>, <<"bul", "beop">>, <<"Y">>, <<"y">>, <<"1">>}   \* '위반' | '불법'
        normal_keywords == {<<"jeong", "sang">>, <<"hae", "dang", "eops", "eum">>, <<"hae", "dang", " ", "eops", "eum">>, <<"N">>, <<"n">>, <<"0">>, <<"jeok", "hap">>}   \* '정상' | '해당없음' | '해당 없음' | '적합'
        is_normal == /\ vlat_gb_cd_nm # <<>>
                     /\ ContainsAny(Strip(vlat_gb_cd_nm), normal_keywords)
        is_violation == /\ vlat_gb_cd_nm # <<>>
                        /\ ~is_normal
                        /\ ContainsAny(Strip(vlat_gb_cd_nm), violation_keywords)
        violation_line == IF parsed.violation_building \/ is_violation
                          THEN <<"geon", "chuk", "mul", "dae", "jang", "sang", " ", "wi", "ban", " ", "geon", "chuk", "mul", ":", " ", "warn", "vs16", " ", "wi", "ban", "geon", "chuk", "mul">>   \* '건축물대장상 위반 건축물: ⚠️ 위반건축물'
                          ELSE IF is_normal THEN <<"geon", "chuk", "mul", "dae", "jang", "sang", " ", "wi", "ban", " ", "geon", "chuk", "mul", ":", " ", "hae", "dang", "eops", "eum">>   \* '건축물대장상 위반 건축물: 해당없음'
                          ELSE <<"geon", "chuk", "mul", "dae", "jang", "sang", " ", "wi", "ban", " ", "geon", "chuk", "mul", ":", " ", "hwak", "in", "yo", "mang">>   \* '건축물대장상 위반 건축물: 확인요망'
        \* lines 1234-1240
        items_lower_cleaned == SelectSeq(Lower(parsed.items_text),
                                         LAMBDA c : c \notin {" ", "\n"})
        unregistered_lines ==
            IF parsed.items_text # <<>>
               /\ ContainsAny(items_lower_cleaned, {<<"mi", "deung", "gi">>, <<"deung", "gi", "eops", "eum">>, <<"deung", "gi", "an", "doem">>, <<"deung", "gi", "x">>})   \* '미등기' | '등기없음' | '등기안됨' | '등기x'
            THEN <<<<"mi", "deung", "gi", " ", "geon", "mul">>>>   \* '미등기 건물'
            ELSE <<>>
    IN <<<<"so", "jae", "ji", ":", " ">> \o location_str>>   \* '소재지: '
       \o <<<<"_", "_", "A", "R", "E", "A", "_", "S", "E", "L", "E", "C", "T", "I", "O", "N", "_", "_">>>>
       \o Marker(<<"_", "_", "A", "C", "T", "U", "A", "L", "_", "A", "R", "E", "A", "_", "_">>, area_comparison.actual_area_m2)
       \o Marker(<<"_", "_", "K", "A", "K", "A", "O", "_", "A", "R", "E", "A", "_", "_">>, area_comparison.kakao_area)
       \o Marker(<<"_", "_", "R", "E", "G", "I", "S", "T", "R", "Y", "_", "A", "R", "E", "A", "_", "_">>, area_comparison.registry_area)
       \o <<<<"jeon", "yong", "myeon", "jeok", ":", " ">>>>   \* '전용면적: '
       \o deposit_lines
       \o Labeled(<<"gwan", "ri", "bi", ":", " ">>, parsed.maintenance_fee)   \* '관리비: '
       \o <<<<"jung", "gae", "dae", "sang", "mul", " ", "jong", "ryu", ":", " ">> \o (IF usage_judgment.judged_usage # <<>>   \* '중개대상물 종류: '
                                    THEN usage_judgment.judged_usage ELSE <<"hwak", "in", "yo", "mang">>)>>   \* '확인요망'
       \o <<<<"geo", "rae", "hyeong", "tae", ":", " ", "im", "dae">>>>   \* '거래형태: 임대'
       \o <<total_floor_line>>
       \o <<floor_line>>
       \o Labeled(<<"ip", "ju", "ga", "neung", "il", ":", " ">>, parsed.move_in_date)   \* '입주가능일: '
       \o <<approval_line>>
       \o Labeled(<<"hwa", "jang", "sil", ":", " ">>, parsed.bathroom_count)   \* '화장실: '
       \o parking_lines
       \o Labeled(<<"bang", "hyang", ":", " ">>, parsed.direction)   \* '방향: '
       \o Labeled(<<"gwon", "ri", "gwan", "gye", ":", " ">>, parsed.rights)   \* '권리관계: '
       \o <<violation_line>>
       \o unregistered_lines
       \o <<<<>>, <<"chong", " ", "cheung", "su", "neun", " ", "ji", "ha", "cheung", "eun", " ", "je", "oe">>>>   \* '총 층수는 지하층은 제외'

\* Lines 432, 435, 438 and 448: the line with its bullet
Bulleted(line_str) == IF StartsWith(line_str, <<"bullet">>) THEN line_str ELSE <<"bullet", " ">> \o line_str   \* '•' | '• '

\* Lines 398-438: one turn of the loop over the lines; st holds result_text,
\* area_options (None for a key that is not set), pending_area_line (None
\* when unset) and area_selection_found
AssembleLine(st, line) ==
    LET line_str == Strip(line)
        \* float(val) of digits with at most two decimals, in hundredths; None
        \* where float raises ValueError
        Float(val) ==
            LET dots == {i \in 1..Len(val) : val[i] = "."}
                whole == IF dots = {} THEN val
                         ELSE SubSeq(val, 1, (CHOOSE i \in dots : TRUE) - 1)
                frac == IF dots = {} THEN <<>>
                        ELSE SubSeq(val, (CHOOSE i \in dots : TRUE) + 1, Len(val))
                ok == /\ Cardinality(dots) <= 1
                      /\ whole \o frac # <<>>
                      /\ Len(frac) <= 2
                      /\ \A i \in 1..Len(whole) : whole[i] \in Digits
                      /\ \A i \in 1..Len(frac) : frac[i] \in Digits
            IN IF ~ok THEN None
               ELSE Some(100 * StrToNat(whole)
                         + (IF Len(frac) = 1 THEN 10 * StrToNat(frac) ELSE StrToNat(frac)))
        \* lines 411-414, 417-420 and 423-426
        Value(marker) ==
            LET val == Strip(Replace(Replace(line_str, marker, <<>>), <<"_", "_">>, <<>>))
            IN IF val # <<>> THEN Float(val) ELSE None
        Put(key, marker) ==
            IF Value(marker) # None THEN [st EXCEPT !.area_options[key] = Value(marker)]
            ELSE st
    IN IF line_str = <<>> THEN [st EXCEPT !.result_text = @ \o <<"\n">>]
       ELSE IF line_str = <<"_", "_", "A", "R", "E", "A", "_", "S", "E", "L", "E", "C", "T", "I", "O", "N", "_", "_">>
       THEN IF st.pending_area_line # None
            THEN [st EXCEPT !.area_selection_found = TRUE,
                            !.result_text = @ \o st.pending_area_line[1] \o <<"\n">>,
                            !.pending_area_line = None]
            ELSE [st EXCEPT !.area_selection_found = TRUE]
       ELSE IF StartsWith(line_str, <<"_", "_", "A", "C", "T", "U", "A", "L", "_", "A", "R", "E", "A", "_", "_">>) THEN Put("actual", <<"_", "_", "A", "C", "T", "U", "A", "L", "_", "A", "R", "E", "A", "_", "_">>)
       ELSE IF StartsWith(line_str, <<"_", "_", "K", "A", "K", "A", "O", "_", "A", "R", "E", "A", "_", "_">>) THEN Put("kakao", <<"_", "_", "K", "A", "K", "A", "O", "_", "A", "R", "E", "A", "_", "_">>)
       ELSE IF StartsWith(line_str, <<"_", "_", "R", "E", "G", "I", "S", "T", "R", "Y", "_", "A", "R", "E", "A", "_", "_">>)
       THEN Put("registry", <<"_", "_", "R", "E", "G", "I", "S", "T", "R", "Y", "_", "A", "R", "E", "A", "_", "_">>)
       ELSE IF StartsWith(line_str, <<"_", "_">>) THEN st
       ELSE IF Contains(line_str, <<"jeon", "yong", "myeon", "jeok", ":">>) /\ st.area_selection_found   \* '전용면적:'
       THEN [st EXCEPT !.pending_area_line = Some(Bulleted(line_str))]
       ELSE [st EXCEPT !.result_text = @ \o Bulleted(line_str) \o <<"\n">>]

\* Lines 397-438: the loop
RECURSIVE AssembleLoop(_, _)
AssembleLoop(st, result_lines) ==
    IF result_lines = <<>> THEN st
    ELSE AssembleLoop(AssembleLine(st, Head(result_lines)), Tail(result_lines))

\* Lines 390-453.
_assemble_result_text(result_lines) ==
    LET st == AssembleLoop([result_text |-> <<>>,
                            area_options |-> [actual |-> None, kakao |-> None,
                                              registry |-> None],
                            pending_area_line |-> None, area_selection_found |-> FALSE],
                           result_lines)
        \* lines 440-441
        t1 == IF st.pending_area_line # None
              THEN st.result_text \o st.pending_area_line[1] \o <<"\n">>
              ELSE st.result_text
        \* lines 444-448: the text rebuilt from the lines that are no markers
        kept == SelectSeq([i \in 1..Len(result_lines) |-> Strip(result_lines[i])],
                          LAMBDA l : l # <<>> /\ ~StartsWith(l, <<"_", "_">>))
        rebuilt == Join(<<>>, [i \in 1..Len(kept) |-> Bulleted(kept[i]) \o <<"\n">>])
        t2 == IF Strip(t1) = <<>> THEN t1 \o rebuilt ELSE t1
        \* lines 450-451
        t3 == IF Strip(t2) = <<>>
              THEN <<"warn", "vs16", " ", "gyeol", "gwa", " ", "tek", "seu", "teu", "ga", " ", "saeng", "seong", "doe", "ji", " ", "anh", "ass", "seup", "ni", "da", ".">> \o <<"\n">>   \* '⚠️ 결과 텍스트가 생성되지 않았습니다.'
                   \o <<"ip", "ryeok", " ", "jeong", "bo", "reul", " ", "hwak", "in", "ha", "go", " ", "da", "si", " ", "si", "do", "hae", "ju", "se", "yo", ".">> \o <<"\n">>   \* '입력 정보를 확인하고 다시 시도해주세요.'
              ELSE t2
    IN [result_text |-> t3, area_options |-> st.area_options]

\* Lines 311-323.  int(round(area / 3.3058, 0)) of an area in hundredths is
\* (200 * area + 33058) \div 66116: no area of two decimals lies halfway
\* between two counts.
WithAreaText(result_text, area_options) ==
    LET Part(label, figure) ==
            IF figure = None THEN <<>>
            ELSE <<label \o <<":", " ">> \o FloatToStr(figure[1]) \o <<"m2", "(">>   \* '㎡('
                   \o NatToStr((200 * figure[1] + 33058) \div 66116) \o <<"pyeong", ")">>>>   \* '평)'
        area_parts == Part(<<"sil", "myeon", "jeok">>, area_options.actual)   \* '실면적'
                      \o Part(<<"jeon", "yong">>, area_options.kakao)   \* '전용'
                      \o Part(<<"dae", "jang">>, area_options.registry)   \* '대장'
        area_text == IF area_parts # <<>> THEN Join(<<" ", "/", " ">>, area_parts) ELSE <<"hwak", "in", "yo", "mang">>   \* '확인요망'
        old == <<"bullet", " ", "jeon", "yong", "myeon", "jeok", ":", " ">> \o <<"\n">>   \* '• 전용면적: '
    IN IF (\E key \in DOMAIN area_options : area_options[key] # None)
          /\ Contains(result_text, old)
       THEN Replace(result_text, old, <<"bullet", " ", "jeon", "yong", "myeon", "jeok", ":", " ">> \o area_text \o <<"\n">>)   \* '• 전용면적: '
       ELSE result_text
(***************************************************************************)
(* The caller's arguments and the answers of process().                    *)
(***************************************************************************)
\* unit_idx: None, an int, or "total"
UIdxNone == [kind |-> "none", val |-> 0]

UIdxInt(i) == [kind |-> "int", val |-> i]

UIdxTotal == [kind |-> "total", val |-> 0]

DefaultArgs ==
    [building_idx |-> None, unit_idx |-> UIdxNone, selected_usage |-> None,
     cached_buildings |-> None, cached_floor_result |-> None,
     cached_area_result |-> None, cached_unit_result |-> None]

\* the dict process() returns; an absent key is FALSE, None or <<>>
BaseResp ==
    [error |-> FALSE, text |-> FALSE,
     need_building_selection |-> FALSE, need_unit_selection |-> FALSE,
     need_usage_selection |-> FALSE,
     buildings |-> None, building |-> None, building_count |-> 0,
     units |-> <<>>, unit_count |-> 0, unit_comparison |-> None,
     floor_result |-> None, area_result |-> None, unit_result |-> None,
     usage_judgment |-> None, area_comparison |-> None, selected_units_info |-> None]

\* lines 136, 146, 160, 180 and the except clause of process(), line 114
ErrorResp == [BaseResp EXCEPT !.error = TRUE]

\* lines 172-178
NeedBuildingResp(blds) ==
    [BaseResp EXCEPT !.need_building_selection = TRUE,
                     !.buildings = Some(blds),
                     !.building_count = Len(blds)]

\* faulty variant of lines 209-222: the unit-area result is left out of the dict
NeedUnitResp_WithoutAreaResult(units, cmp, bld, blds, fr, ar, ur) ==
    [BaseResp EXCEPT !.need_unit_selection = TRUE,
                     !.units = units, !.unit_comparison = Some(cmp),
                     !.building = Some(bld), !.buildings = Some(blds),
                     !.floor_result = fr, !.unit_result = ur,
                     !.unit_count = Len(units)]

\* lines 209-222
NeedUnitResp(units, cmp, bld, blds, fr, ar, ur) ==
    [BaseResp EXCEPT !.need_unit_selection = TRUE,
                     !.units = units, !.unit_comparison = Some(cmp),
                     !.building = Some(bld), !.buildings = Some(blds),
                     !.floor_result = fr, !.area_result = ar, !.unit_result = ur,
                     !.unit_count = Len(units)]

\* faulty variant of lines 250-262: the unit flag is raised as well
NeedUsageResp_WithUnitFlag(bld, blds, fr, ar, ur, sel) ==
    [BaseResp EXCEPT !.need_usage_selection = TRUE, !.need_unit_selection = TRUE,
                     !.building = Some(bld), !.buildings = Some(blds),
                     !.floor_result = fr, !.area_result = ar, !.unit_result = ur,
                     !.selected_units_info = sel]

\* lines 250-262
NeedUsageResp(bld, blds, fr, ar, ur, sel) ==
    [BaseResp EXCEPT !.need_usage_selection = TRUE,
                     !.building = Some(bld), !.buildings = Some(blds),
                     !.floor_result = fr, !.area_result = ar, !.unit_result = ur,
                     !.selected_units_info = sel]

\* lines 325-337
SuccessResp(bld, blds, uj, ac, fr, ar, ur) ==
    [BaseResp EXCEPT !.text = TRUE,
                     !.building = Some(bld), !.buildings = Some(blds),
                     !.usage_judgment = Some(uj), !.area_comparison = Some(ac),
                     !.floor_result = fr, !.area_result = ar, !.unit_result = ur]

\* Python seq[i]: a negative index counts from the end; <<>> is IndexError
PyIndex(seq, i) ==
    IF 0 <= i /\ i < Len(seq) THEN Some(seq[i + 1])
    ELSE IF i < 0 /\ -i <= Len(seq) THEN Some(seq[Len(seq) + i + 1])
    ELSE None

\* selected_usage is given and not empty
Truthy(opt) == opt # None /\ opt[1] # <<>>

(***************************************************************************)
(* State.                                                                  *)
(***************************************************************************)
VARIABLES
    listing,             \* the parsed listing of the session's text
    title_result,        \* what the registry's title lookup answers for the address
    args,                \* the arguments of the running process() call
    turn,                \* 1 in the session's first call, 2 in its second, ...
    answers,             \* what the session's earlier calls answered, in order
    pc,                  \* the stage the call is at
    buildings,           \* local of _process_internal, line 149
    building,            \* line 181, 183
    floor_result,        \* line 186
    area_result,         \* line 187
    unit_result,         \* line 188
    unit_idx,            \* the parameter, reassigned at line 205
    all_units,           \* line 198
    selected_units_info, \* line 196
    usage_judgment,      \* line 244
    area_comparison,     \* line 274
    futures,             \* the three futures of _fetch_detail_apis
    calls,               \* registry calls issued by the running call, per operation
    stages,              \* the stages the running call has entered, in order
    result               \* what process() returned, once pc = "done"

vars == <<listing, title_result, args, turn, answers, pc, buildings, building, floor_result,
          area_result, unit_result, unit_idx, all_units, selected_units_info,
          usage_judgment, area_comparison, futures, calls, stages, result>>

session == <<listing, title_result, args, turn, answers>>

NoFutures == [floor |-> "none", area |-> "none", unit |-> "none"]

NoCalls == [title |-> 0, floor |-> 0, area |-> 0, unit |-> 0]

NoComparison ==
    [compared |-> FALSE, kakao_area |-> 0, actual_area_m2 |-> 0, registry_area |-> 0,
     has_diff |-> FALSE, area_diff |-> 0, area_match |-> FALSE,
     selected_unit_area |-> 0, selected_unit_type |-> "", unit_breakdown |-> <<>>]

Init ==
    /\ listing \in Listings
    /\ title_result \in TitleResults
    /\ args = DefaultArgs
    /\ turn = 1
    /\ answers = <<>>
    /\ pc = "parse"
    /\ buildings = <<>>
    /\ building = None
    /\ floor_result = None
    /\ area_result = None
    /\ unit_result = None
    /\ unit_idx = UIdxNone
    /\ all_units = <<>>
    /\ selected_units_info = None
    /\ usage_judgment = None
    /\ area_comparison = NoComparison
    /\ futures = NoFutures
    /\ calls = NoCalls
    /\ stages = <<>>
    /\ result = BaseResp

\* the stages of _process_internal in the order of its statements
StageOrder ==
    <<"parse", "address", "lookup", "select_building", "fetch", "unit", "classify",
      "usage_selection", "reconcile", "assemble">>

StageIndex(stage) == CHOOSE i \in 1..Len(StageOrder) : StageOrder[i] = stage

\* faulty variant of the statement order: the detail fetch precedes the
\* building selection
After_FetchFirst(stage) ==
    CASE stage = "lookup" -> "fetch"
      [] stage = "fetch" -> "select_building"
      [] stage = "select_building" -> "unit"
      [] OTHER -> StageOrder[StageIndex(stage) + 1]

\* the stage that follows when a stage does not return
After(stage) == StageOrder[StageIndex(stage) + 1]

\* a stage starts executing
Enter(stage) == pc = stage /\ stages' = Append(stages, stage)

\* control falls through to the next stage
Continue == pc' = After(pc) /\ UNCHANGED result

\* a return statement of _process_internal, or the except clause of process()
Return(resp) == pc' = "done" /\ result' = resp

(***************************************************************************)
(* Lines 131-136: the parser's record must carry an address.               *)
(***************************************************************************)
ParseListing ==
    /\ Enter("parse")
    /\ IF ~listing.address THEN Return(ErrorResp)
       ELSE Continue
    /\ UNCHANGED <<session, buildings, building, floor_result, area_result, unit_result,
                   unit_idx, all_units, selected_units_info, usage_judgment,
                   area_comparison, futures, calls>>

(***************************************************************************)
(* Lines 143-146: the address must resolve to its administrative codes.    *)
(***************************************************************************)
\* faulty variant of line 145: the codes are not looked at
HasCodes_Unchecked(parsed) == TRUE

\* line 145: address_info has a sigungu_code and a bjdong_code
HasCodes(parsed) == parsed.code_ok

ParseAddress ==
    /\ Enter("address")
    /\ IF ~HasCodes(listing) THEN Return(ErrorResp)
       ELSE Continue
    /\ UNCHANGED <<session, buildings, building, floor_result, area_result, unit_result,
                   unit_idx, all_units, selected_units_info, usage_judgment,
                   area_comparison, futures, calls>>

(***************************************************************************)
(* Lines 148-167: the building list, from the cache or from the registry.  *)
(* get_title_info may raise; process() turns the exception into an error.  *)
(***************************************************************************)
\* faulty variant of line 150: the registry is asked whatever the cache holds
NeedsLookup_Always(cached_buildings) == TRUE

\* line 150: buildings is None
NeedsLookup(cached_buildings) == cached_buildings = None

LookupBuildings ==
    /\ Enter("lookup")
    /\ IF ~NeedsLookup(args.cached_buildings)
       THEN /\ buildings' = args.cached_buildings[1]
            /\ Continue
            /\ UNCHANGED calls
       ELSE /\ calls' = [calls EXCEPT !.title = @ + 1]
            /\ \E raised \in BOOLEAN :
                 IF raised \/ ~title_result.success \/ title_result.data = <<>>
                 THEN Return(ErrorResp) /\ UNCHANGED buildings
                 ELSE /\ buildings' = FilterLookup(title_result.data, listing.dong)
                      /\ Continue
    /\ UNCHANGED <<session, building, floor_result, area_result, unit_result, unit_idx,
                   all_units, selected_units_info, usage_judgment, area_comparison,
                   futures>>

(***************************************************************************)
(* Lines 169-183: one building, by the caller's index when there are more. *)
(***************************************************************************)
SelectedBuilding(blds, building_idx) ==
    IF Len(blds) > 1
    THEN IF building_idx[1] >= Len(blds) THEN None ELSE PyIndex(blds, building_idx[1])
    ELSE PyIndex(blds, 0)

\* faulty variant of line 170: the caller's index is not looked at
NeedsBuildingChoice_IgnoringIndex(blds, building_idx) == Len(blds) > 1

\* faulty variant of line 170: index 0 is taken for no index
NeedsBuildingChoice_ZeroIsNone(blds, building_idx) ==
    Len(blds) > 1 /\ (building_idx = None \/ building_idx = Some(0))

\* line 170: several candidates and no index
NeedsBuildingChoice(blds, building_idx) == Len(blds) > 1 /\ building_idx = None

BuildingSelection ==
    /\ Enter("select_building")
    /\ IF NeedsBuildingChoice(buildings, args.building_idx)
       THEN Return(NeedBuildingResp(buildings)) /\ UNCHANGED building
       ELSE LET chosen == SelectedBuilding(buildings, args.building_idx)
            IN IF chosen = None
               THEN Return(ErrorResp) /\ UNCHANGED building
               ELSE building' = chosen /\ Continue
    /\ UNCHANGED <<session, buildings, floor_result, area_result, unit_result, unit_idx,
                   all_units, selected_units_info, usage_judgment, area_comparison,
                   futures, calls>>

(***************************************************************************)
(* Lines 185-193 and _fetch_detail_apis, lines 358-376.  The caches become *)
(* the locals; when the floor cache is None and the building has a key,    *)
(* the calls are submitted to the pool of 3 workers: floor and unit-area   *)
(* always, unit-info when the listing states a unit label.                 *)
(***************************************************************************)
NeedsFetch(cached_floor_result, bld) ==
    cached_floor_result = None /\ bld # None /\ bld[1].mgmBldrgstPk # ""

FetchDetails ==
    /\ Enter("fetch")
    /\ floor_result' = args.cached_floor_result
    /\ area_result' = args.cached_area_result
    /\ unit_result' = args.cached_unit_result
    /\ IF NeedsFetch(args.cached_floor_result, building)
       THEN /\ futures' = [floor |-> "running", area |-> "running",
                           unit |-> IF listing.ho # <<>> THEN "running" ELSE "none"]
            /\ calls' = [calls EXCEPT !.floor = @ + 1, !.area = @ + 1,
                                      !.unit = IF listing.ho # <<>> THEN @ + 1 ELSE @]
            /\ pc' = "fetching"
       ELSE /\ pc' = After(pc)
            /\ UNCHANGED <<futures, calls>>
    /\ UNCHANGED <<session, buildings, building, unit_idx, all_units,
                   selected_units_info, usage_judgment, area_comparison, result>>

\* a submitted call ends: it returns the registry's answer or raises
CallEnds(f) ==
    /\ pc = "fetching"
    /\ futures[f] = "running"
    /\ \E outcome \in {"done", "raised"} : futures' = [futures EXCEPT ![f] = outcome]
    /\ UNCHANGED <<session, pc, buildings, building, floor_result, area_result,
                   unit_result, unit_idx, all_units, selected_units_info,
                   usage_judgment, area_comparison, calls, stages, result>>

FloorCallEnds == CallEnds("floor")

AreaCallEnds == CallEnds("area")

UnitCallEnds == CallEnds("unit")

\* lines 373-376: future.result() of each call, then the pool is shut down; a
\* raised call's exception leaves _process_internal and process() returns an error
\* faulty variant of lines 373-375: only the floor call's result() is taken
FetchRaised_FloorOnly(fut) == fut.floor = "raised"

\* lines 373-375: result() re-raises what the call raised
FetchRaised(fut) == \E f \in {"floor", "area", "unit"} : fut[f] = "raised"

\* faulty variant of line 366: the pool is left without waiting for the calls
\* other than the floor call
AllEnded_FloorOnly(fut) == fut.floor # "running"

\* line 366: leaving the with block shuts the pool down and waits for every
\* submitted call
AllEnded(fut) == \A f \in {"floor", "area", "unit"} : fut[f] # "running"

JoinFetch ==
    /\ pc = "fetching"
    /\ AllEnded(futures)
    /\ IF FetchRaised(futures)
       THEN /\ Return(ErrorResp)
            /\ UNCHANGED <<floor_result, area_result, unit_result>>
       ELSE /\ floor_result' = Some(get_floor_info(building[1].mgmBldrgstPk))
            /\ area_result' = Some(get_unit_area_info(building[1].mgmBldrgstPk))
            /\ unit_result' = IF futures.unit = "done"
                              THEN Some(get_unit_info(building[1].mgmBldrgstPk))
                              ELSE None
            /\ pc' = After("fetch")
            /\ UNCHANGED result
    /\ UNCHANGED <<session, buildings, building, unit_idx, all_units,
                   selected_units_info, usage_judgment, area_comparison, futures, calls,
                   stages>>

(***************************************************************************)
(* Lines 195-241: the unit step.                                           *)
(***************************************************************************)
\* lines 224-241: what the (possibly auto-matched) unit index selects
SelectedUnits(idx, units) ==
    IF idx.kind = "total"
    THEN Some([type |-> "total", area |-> SumAreas(units), usage |-> units[1].main_usage,
               ho |-> <<>>, units |-> units])
    ELSE IF idx.kind = "int" /\ idx.val < Len(units)
    THEN LET sel == PyIndex(units, idx.val)
         IN IF sel = None THEN None
            ELSE Some([type |-> "single", area |-> sel[1].area, usage |-> sel[1].main_usage,
                       ho |-> sel[1].ho, units |-> <<sel[1]>>])
    ELSE None

\* the index is an int below -len(all_units): all_units[unit_idx] raises IndexError
UnitIndexError(idx, units) == idx.kind = "int" /\ idx.val < 0 /\ -idx.val > Len(units)

UnitSelection ==
    /\ Enter("unit")
    /\ LET units == IF listing.floor # 0
                    THEN _get_all_units_on_floor(area_result, listing.floor, floor_result)
                    ELSE <<>>
           auto_idx == _auto_match_ho(listing.ho, units)
           idx == IF unit_idx.kind = "none" /\ auto_idx # None
                  THEN UIdxInt(auto_idx[1]) ELSE unit_idx
       IN /\ all_units' = units
          /\ IF Len(units) > 1
             THEN IF idx.kind = "none"
                  THEN /\ Return(NeedUnitResp(units,
                                   _compare_unit_areas(IF listing.area_m2 # 0 THEN listing.area_m2
                                                       ELSE listing.actual_area_m2, units),
                                   building[1], buildings, floor_result, area_result,
                                   unit_result))
                       /\ UNCHANGED <<unit_idx, selected_units_info>>
                  ELSE IF UnitIndexError(idx, units)
                  THEN /\ Return(ErrorResp)
                       /\ UNCHANGED <<unit_idx, selected_units_info>>
                  ELSE /\ unit_idx' = idx
                       /\ selected_units_info' = SelectedUnits(idx, units)
                       /\ Continue
             ELSE /\ Continue
                  /\ UNCHANGED <<unit_idx, selected_units_info>>
    /\ UNCHANGED <<session, buildings, building, floor_result, area_result, unit_result,
                   usage_judgment, area_comparison, futures, calls>>

(***************************************************************************)
(* Line 244: classification.                                               *)
(***************************************************************************)
Classify ==
    /\ Enter("classify")
    /\ usage_judgment' = Some(_judge_usage(building[1], listing, floor_result,
                                           listing.floor, area_result))
    /\ Continue
    /\ UNCHANGED <<session, buildings, building, floor_result, area_result, unit_result,
                   unit_idx, all_units, selected_units_info, area_comparison, futures,
                   calls>>

(***************************************************************************)
(* Lines 246-271: the storefront sentinel needs the caller's choice; then  *)
(* the selected unit's usage and the caller's choice are put in.           *)
(***************************************************************************)
\* faulty variant of line 247: the caller's choice is not looked at
NeedsUsageChoice_IgnoringChoice(uj, selected_usage) ==
    uj.judged_usage = NEED_USAGE_SELECTION

NeedsUsageChoice(uj, selected_usage) ==
    uj.judged_usage = NEED_USAGE_SELECTION /\ ~Truthy(selected_usage)

FinalJudgment(uj, sel, selected_usage) ==
    LET j1 == IF uj.judged_usage = NEED_USAGE_SELECTION /\ Truthy(selected_usage)
              THEN selected_usage[1] ELSE uj.judged_usage
        unitUsage == IF sel # None /\ sel[1].usage # <<>> THEN sel[1].usage ELSE <<>>
        j2 == IF unitUsage # <<>> /\ j1 = <<>> THEN unitUsage ELSE j1
        j3 == IF Truthy(selected_usage) THEN selected_usage[1] ELSE j2
    IN [uj EXCEPT !.judged_usage = j3, !.selected_unit_usage = unitUsage]

UsageSelection ==
    /\ Enter("usage_selection")
    /\ IF NeedsUsageChoice(usage_judgment[1], args.selected_usage)
       THEN /\ Return(NeedUsageResp(building[1], buildings, floor_result, area_result,
                                    unit_result, selected_units_info))
            /\ UNCHANGED usage_judgment
       ELSE /\ usage_judgment' = Some(FinalJudgment(usage_judgment[1], selected_units_info,
                                                    args.selected_usage))
            /\ Continue
    /\ UNCHANGED <<session, buildings, building, floor_result, area_result, unit_result,
                   unit_idx, all_units, selected_units_info, area_comparison, futures,
                   calls>>

(***************************************************************************)
(* Lines 273-289: the area comparison, completed from the selected units.  *)
(***************************************************************************)
RECURSIVE Breakdown(_)
Breakdown(units) ==
    IF units = <<>> THEN <<>>
    ELSE <<[ho |-> Head(units).ho, area |-> Head(units).area,
            usage |-> Head(units).main_usage]>> \o Breakdown(Tail(units))

Reconciled(parsed, floor_result_, area_result_, floor, sel) ==
    LET c == _compare_areas(parsed, floor_result_, area_result_, floor, sel)
        base == IF c = None THEN NoComparison
                ELSE [NoComparison EXCEPT !.compared = TRUE,
                                          !.kakao_area = c[1].kakao_area,
                                          !.actual_area_m2 = parsed.actual_area_m2,
                                          !.registry_area = c[1].registry_area,
                                          !.has_diff = c[1].has_diff,
                                          !.area_diff = c[1].area_diff,
                                          !.area_match = c[1].area_match]
    IN IF sel = None THEN base
       ELSE [base EXCEPT !.registry_area = IF @ = 0 THEN sel[1].area ELSE @,
                         !.selected_unit_area = sel[1].area,
                         !.selected_unit_type = sel[1].type,
                         !.unit_breakdown = IF sel[1].type = "total"
                                            THEN Breakdown(sel[1].units) ELSE <<>>]

ReconcileArea ==
    /\ Enter("reconcile")
    /\ area_comparison' = Reconciled(listing, floor_result, area_result, listing.floor,
                                     selected_units_info)
    /\ Continue
    /\ UNCHANGED <<session, buildings, building, floor_result, area_result, unit_result,
                   unit_idx, all_units, selected_units_info, usage_judgment, futures,
                   calls>>

(***************************************************************************)
(* Lines 291-337: the text is generated and the success dict returned.     *)
(***************************************************************************)
Assemble ==
    /\ Enter("assemble")
    /\ Return(SuccessResp(building[1], buildings, usage_judgment[1], area_comparison,
                          floor_result, area_result, unit_result))
    /\ UNCHANGED <<session, buildings, building, floor_result, area_result, unit_result,
                   unit_idx, all_units, selected_units_info, usage_judgment,
                   area_comparison, futures, calls>>

(***************************************************************************)
(* The caller.  process() keeps no state between calls.  A session is a    *)
(* first call with the text alone and, after an answer that is not an      *)
(* error, a second call with the same text: the caller may change one of   *)
(* the three selections, and passes back the building list and the detail  *)
(* results of the answer, or leaves some of them out.                      *)
(***************************************************************************)
\* which of the returns of _process_internal a dict is
Kind(resp) ==
    IF resp.error THEN "error"
    ELSE IF resp.need_building_selection THEN "need_building_selection"
    ELSE IF resp.need_unit_selection THEN "need_unit_selection"
    ELSE IF resp.need_usage_selection THEN "need_usage_selection"
    ELSE "success"

\* what the caller sees of an answer: its kind, the judged category, the
\* selected building and the area comparison
Answer(resp) ==
    [kind |-> Kind(resp),
     judged_usage |-> IF resp.usage_judgment # None
                      THEN resp.usage_judgment[1].judged_usage ELSE <<>>,
     building |-> resp.building,
     area_comparison |-> resp.area_comparison]

\* the selections a caller may add: a building index, a unit index, or a
\* selected_usage that is one of the offered options, the empty string, or a
\* string of the caller's own
SelectionChoices(a) ==
    {a} \cup {[a EXCEPT !.building_idx = Some(i)] : i \in -1..MaxBuildings}
        \cup {[a EXCEPT !.unit_idx = u] :
                u \in {UIdxNone, UIdxTotal} \cup {UIdxInt(i) : i \in -1..MaxUnitIdx}}
        \cup {[a EXCEPT !.selected_usage = Some(s)] : s \in {U_1jong, <<>>, <<"sang", "ga">>}}   \* '상가'

\* which of the answer's payloads the caller passes back
CacheChoices ==
    {{"buildings", "floor", "area", "unit"}, {}, {"buildings"},
     {"buildings", "area", "unit"}, {"floor", "area", "unit"}}

Reinvoke ==
    /\ pc = "done"
    /\ ~result.error
    /\ turn = 1
    /\ \E a \in SelectionChoices(args), keep \in CacheChoices :
         args' = [a EXCEPT
                    !.cached_buildings = IF "buildings" \in keep THEN result.buildings ELSE None,
                    !.cached_floor_result = IF "floor" \in keep THEN result.floor_result ELSE None,
                    !.cached_area_result = IF "area" \in keep THEN result.area_result ELSE None,
                    !.cached_unit_result = IF "unit" \in keep THEN result.unit_result ELSE None]
    /\ turn' = turn + 1
    /\ answers' = Append(answers, Answer(result))
    /\ pc' = "parse"
    /\ buildings' = <<>>
    /\ building' = None
    /\ floor_result' = None
    /\ area_result' = None
    /\ unit_result' = None
    /\ unit_idx' = args'.unit_idx
    /\ all_units' = <<>>
    /\ selected_units_info' = None
    /\ usage_judgment' = None
    /\ area_comparison' = NoComparison
    /\ futures' = NoFutures
    /\ calls' = NoCalls
    /\ stages' = <<>>
    /\ result' = BaseResp
    /\ UNCHANGED <<listing, title_result>>

Next ==
    \/ ParseListing
    \/ ParseAddress
    \/ LookupBuildings
    \/ BuildingSelection
    \/ FetchDetails
    \/ FloorCallEnds
    \/ AreaCallEnds
    \/ UnitCallEnds
    \/ JoinFetch
    \/ UnitSelection
    \/ Classify
    \/ UsageSelection
    \/ ReconcileArea
    \/ Assemble
    \/ Reinvoke

Spec == Init /\ [][Next]_vars


(***************************************************************************)
(* The unit step on its own: a call that has fetched the details of its    *)
(* one building and stands before the unit step, for every list of up to   *)
(* MaxUnits 전유 records the registry may hold for the listing's floor, and *)
(* every unit index a caller may pass.                                     *)
(***************************************************************************)
MaxUnits == 3

\* the registry's 전유 records of floor 1 have labels that differ in the suffix
\* '호' and in case, and areas that tell the records apart
UnitInit ==
    /\ listing \in [address : {TRUE}, code_ok : {TRUE}, floor : {1},
                    ho : {<<>>, <<"1", "0", "1", "ho">>, <<"b", "1", "0", "1">>}, dong : {<<>>}, area_m2 : {0, 5000},   \* '101호'
                    actual_area_m2 : {0}]
    /\ title_result = [success |-> TRUE, data |-> <<Building("P5", <<>>)>>]
    /\ \E idx \in {UIdxNone, UIdxTotal, UIdxInt(0)} :
         /\ args = [DefaultArgs EXCEPT !.unit_idx = idx]
         /\ unit_idx = idx
    /\ turn = 1
    /\ answers = <<>>
    /\ pc = "unit"
    /\ buildings = title_result.data
    /\ building = Some(Building("P5", <<>>))
    /\ floor_result = Some(ApiResult("P5", <<FloorRec(<<"1", "cheung">>, 9000, U_2jong, <<>>)>>))   \* '1층'
    /\ LET UnitRecords ==
               {AreaRec(<<"1", "0", "1", "ho">>, <<"1", "cheung">>, S_jeonyu, 1000, U_2jong, <<>>, 0),   \* '101호' | '1층'
                AreaRec(<<"1", "0", "1">>, <<"1", "cheung">>, S_jeonyu, 2000, U_2jong, <<>>, 0),   \* '1층'
                AreaRec(<<"B", "1", "0", "1">>, <<"1", "cheung">>, S_jeonyu, 3000, U_2jong, <<>>, 0),   \* '1층'
                AreaRec(<<"b", "1", "0", "1", "ho">>, <<"1", "cheung">>, S_jeonyu, 4000, U_2jong, <<>>, 0),   \* 'b101호' | '1층'
                AreaRec(<<"1", "0", "2", "ho">>, <<"1", "cheung">>, S_jeonyu, 5000, U_2jong, <<>>, 0)}   \* '102호' | '1층'
       IN \E recs \in UNION {[1..k -> UnitRecords] : k \in 1..MaxUnits} :
              area_result = Some(ApiResult("P5", recs))
    /\ unit_result = IF listing.ho # <<>> THEN Some(ApiResult("P5", <<>>)) ELSE None
    /\ all_units = <<>>
    /\ selected_units_info = None
    /\ usage_judgment = None
    /\ area_comparison = NoComparison
    /\ futures = [floor |-> "done", area |-> "done",
                  unit |-> IF listing.ho # <<>> THEN "done" ELSE "none"]
    /\ calls = [title |-> 1, floor |-> 1, area |-> 1,
                unit |-> IF listing.ho # <<>> THEN 1 ELSE 0]
    /\ stages = SubSeq(StageOrder, 1, StageIndex("fetch"))
    /\ result = BaseResp

UnitNext ==
    \/ UnitSelection
    \/ Classify
    \/ UsageSelection
    \/ ReconcileArea
    \/ Assemble

UnitSpec == UnitInit /\ [][UnitNext]_vars

(***************************************************************************)
(* The helper functions called on their own: pc names the function about   *)
(* to be called, args holds its arguments, result what it returned.        *)
(***************************************************************************)
MaxFloor == 3

\* parse_floor_string and match_floor on every spelling of floor k and of
\* basement k that registry floor strings use, for every floor up to MaxFloor
FloorCalls ==
    LET FloorEncodings(k) ==
            LET d == NatToStr(k)
            IN {d \o S_cheung, S_jisang \o d, S_jisang \o d \o S_cheung, d, d \o <<"F">>,
                <<"B">> \o d, <<"b">> \o d, <<"-">> \o d, S_jiha \o d,
                S_jiha \o d \o S_cheung, S_jiha \o <<" ">> \o d \o S_cheung,
                <<"1">> \o d \o S_cheung}
    IN [fn : {"parse_floor_string"},
        args : [search_floor : (-MaxFloor..MaxFloor) \ {0},
                registry_floor_str : UNION {FloorEncodings(k) : k \in 1..MaxFloor}]]

\* listing areas and registry areas in hundredths of a square metre, 0 where the
\* area is absent: a tenth, nine and eleven hundredths to either side of 30 and
\* of 100 square metres; the registry area comes from the selected unit or,
\* with no unit selected, from the floor overview
CompareCalls ==
    {[fn |-> "_compare_areas",
      args |-> [parsed |-> [address |-> TRUE, code_ok |-> TRUE, floor |-> 1, ho |-> <<>>,
                            dong |-> <<>>, area_m2 |-> k, actual_area_m2 |-> 0],
                floor_result |->
                    Some(ApiResult("P5", <<FloorRec(<<"1", "cheung">>, IF sel THEN 7000 ELSE r,   \* '1층'
                                                    U_2jong, <<>>)>>)),
                area_result |-> None,
                floor |-> 1,
                selected_units_info |->
                    IF sel /\ r # 0
                    THEN SelectedUnits(UIdxInt(0), <<Unit(<<"1", "0", "1", "ho">>, r, U_2jong, <<>>, <<"1", "cheung">>)>>)   \* '101호' | '1층'
                    ELSE None]] :
        k \in {0, 2989, 2990, 2991, 3000, 3009, 3010, 3011,
               9989, 9990, 9991, 10000, 10009, 10010, 10011},
        r \in {0, 3000, 10000}, sel \in BOOLEAN}

\* the listing is on floor 1 with or without the label '101호'; a unit may
\* have been selected in the unit step; the unit-area records are those of a
\* building whose only '101호' lies on floor 1 or 2, recorded as exclusively
\* owned or as shared, or of one with '102호' and '101' on floor 1
AreaSourceCalls ==
    LET LabelRecords ==
            {<<AreaRec(<<"1", "0", "1", "ho">>, flr, expos, 4000, U_2jong, <<>>, 0)>> :   \* '101호'
                flr \in {<<"1", "cheung">>, <<"2", "cheung">>}, expos \in {S_jeonyu, S_gongyong}}   \* '1층' | '2층'
            \cup {<<AreaRec(<<"1", "0", "2", "ho">>, <<"1", "cheung">>, S_jeonyu, 6000, U_2jong, <<>>, 0),   \* '102호' | '1층'
                    AreaRec(<<"1", "0", "1">>, <<"1", "cheung">>, S_jeonyu, 4000, U_2jong, <<>>, 0)>>}   \* '1층'
    IN
    {[fn |-> "_compare_areas",
      args |-> [parsed |-> [address |-> TRUE, code_ok |-> TRUE, floor |-> 1, ho |-> ho,
                            dong |-> <<>>, area_m2 |-> 3000, actual_area_m2 |-> 0],
                floor_result |-> Some(ApiResult("P5", <<FloorRec(<<"2", "cheung">>, 8000, U_2jong, <<>>),   \* '2층'
                                                        FloorRec(<<"1", "cheung">>, fa, U_2jong, <<>>)>>)),   \* '1층'
                area_result |-> Some(ApiResult("P5", recs)),
                floor |-> 1,
                selected_units_info |->
                    IF sel
                    THEN SelectedUnits(UIdxInt(0), <<Unit(<<"1", "0", "3", "ho">>, 10000, U_2jong, <<>>, <<"1", "cheung">>)>>)   \* '103호' | '1층'
                    ELSE None]] :
        ho \in {<<>>, <<"1", "0", "1", "ho">>}, fa \in {0, 7000}, recs \in LabelRecords, sel \in BOOLEAN}   \* '101호'

\* the keywords of the groups with a cutoff
ThresholdKeywords ==
    {<<"so", "mae", "jeom">>, <<"hyu", "ge", "eum", "sik", "jeom">>, <<"keo", "pi", "syop">>, <<"je", "gwa", "jeom">>, <<"ka", "pe">>, <<"sa", "mu", "so">>, <<"sa", "mu", "sil">>, <<"hak", "won">>, <<"gyo", "seup", "so">>,   \* '소매점' | '휴게음식점' | '커피숍' | '제과점' | '카페' | '사무소' | '사무실' | '학원' | '교습소'
     <<"che", "yuk", "do", "jang">>, <<"hel", "seu", "jang">>, <<"p", "c", "bang">>, <<"P", "C", "bang">>, <<"ge", "im", "jang">>}   \* '체육도장' | '헬스장' | 'pc방' | 'PC방' | '게임장'

\* _classify_usage_master on those keywords, on strings with a tier phrase, on
\* residence types (detached, multi-unit, both, one beside an office), on
\* storefront strings, an unknown word and no string; areas in hundredths of
\* a square metre, 0 for an absent area: a hundredth below each cutoff, the
\* cutoff, and values between
ClassifyCalls ==
    LET TierStrings ==
            {<<"je", "1", "jong", "geun", "rin", "saeng", "hwal", "si", "seol">>, <<"je", "1", "jong", " ", "geun", "rin", "saeng", "hwal", "si", "seol">>, <<"je", "2", "jong", "geun", "rin", "saeng", "hwal", "si", "seol">>, <<"je", "2", "jong", " ", "geun", "rin", "saeng", "hwal", "si", "seol">>,   \* '제1종근린생활시설' | '제1종 근린생활시설' | '제2종근린생활시설' | '제2종 근린생활시설'
             <<"je", "1", "jong", "geun", "rin", "saeng", "hwal", "si", "seol", "(", "so", "mae", "jeom", ")">>, <<"je", "2", "jong", " ", "geun", "rin", "saeng", "hwal", "si", "seol", "(", "sa", "mu", "so", ")">>, <<"je", "2", "jong", "geun", "rin", "saeng", "hwal", "si", "seol", "(", "ju", "taek", ")">>,   \* '제1종근린생활시설(소매점)' | '제2종 근린생활시설(사무소)' | '제2종근린생활시설(주택)'
             <<"je", "1", "jong", "geun", "rin", "saeng", "hwal", "si", "seol", "(", "jeom", "po", ")">>, <<"jeom", "po", " ", "mich", " ", "ju", "taek", ",", " ", "je", "1", "jong", "geun", "rin", "saeng", "hwal", "si", "seol">>,   \* '제1종근린생활시설(점포)' | '점포 및 주택, 제1종근린생활시설'
             <<"je", "2", "jong", " ", "geun", "rin", "saeng", "hwal", "si", "seol", "(", "ju", "taek", " ", "mich", " ", "jeom", "po", ")">>, <<"je", "1", "jong", "geun", "rin", "saeng", "hwal", "si", "seol", ",", " ", "je", "2", "jong", "geun", "rin", "saeng", "hwal", "si", "seol">>,   \* '제2종 근린생활시설(주택 및 점포)' | '제1종근린생활시설, 제2종근린생활시설'
             <<"je", "2", "jong", "geun", "rin", "saeng", "hwal", "si", "seol", " ", "mich", " ", "je", "1", "jong", " ", "geun", "rin", "saeng", "hwal", "si", "seol">>}   \* '제2종근린생활시설 및 제1종 근린생활시설'
        ResidenceStrings ==
            {<<"dan", "dok", "ju", "taek">>, <<"da", "ga", "gu", "ju", "taek">>, <<"gong", "gwan">>, <<"a", "pa", "teu">>, <<"da", "se", "dae", "ju", "taek">>, <<"gi", "suk", "sa">>,   \* '단독주택' | '다가구주택' | '공관' | '아파트' | '다세대주택' | '기숙사'
             <<"a", "pa", "teu", ",", " ", "da", "ga", "gu", "ju", "taek">>, <<"a", "pa", "teu", "(", "sa", "mu", "so", ")">>}   \* '아파트, 다가구주택' | '아파트(사무소)'
    IN [fn : {"_classify_usage_master"},
        args : [api_usage_str : ThresholdKeywords \cup TierStrings \cup ResidenceStrings
                                    \cup {<<"jeom", "po">>, <<"jeom", "po", " ", "mich", " ", "ju", "taek">>, <<"sang", "ga">>, <<>>},   \* '점포' | '점포 및 주택' | '상가'
                area_m2 : {0, 1, 2999, 3000, 25000, 29999, 30000, 35000, 49999, 50000,
                           99999, 100000, 150000}]]

\* _filter_buildings_by_dong on lookups of up to MaxBuildings buildings; wing
\* labels of listings and of registry buildings: none, labels with the same
\* digits written differently, other digits, no digits
FilterCalls ==
    LET WingLabels == {<<>>, <<"1", "0", "1", "dong">>, <<"je", "1", "0", "1", "dong">>, <<"1", "0", "2", "dong">>, <<"A", "dong">>, <<"B", "dong">>}   \* '101동' | '제101동' | '102동' | 'A동' | 'B동'
        \* mgmBldrgstPk of the i-th building of a lookup
        PkOf(i) == <<"P1", "P2", "P3", "P4">>[i]
    IN [fn : {"_filter_buildings_by_dong"},
        args : [buildings :
                    UNION {{[i \in 1..k |-> Building(PkOf(i), w[i])] :
                              w \in [1..k -> WingLabels]} : k \in 1..MaxBuildings},
                dong : WingLabels]]

\* the primary (mainPurpsCdNm) and secondary (etcPurps) usage of the floor
\* record of the listing's floor
JudgeCalls ==
    {[fn |-> "_judge_usage",
      args |-> [building |-> Building("P5", <<>>),
                parsed |-> [address |-> TRUE, code_ok |-> TRUE, floor |-> 1, ho |-> <<>>,
                            dong |-> <<>>, area_m2 |-> a, actual_area_m2 |-> 0],
                floor_result |-> Some(ApiResult("P5", <<FloorRec(<<"1", "cheung">>, a, p, e)>>)),   \* '1층'
                floor |-> 1,
                area_result |-> None]] :
        p \in {<<>>, <<"jeom", "po">>, <<"so", "mae", "jeom">>, <<"sa", "mu", "so">>, <<"je", "2", "jong", "geun", "rin", "saeng", "hwal", "si", "seol">>},   \* '점포' | '소매점' | '사무소' | '제2종근린생활시설'
        e \in {<<>>, <<"so", "mae", "jeom">>, <<"gi", "ta">>, <<"ju", "taek">>, <<"je", "1", "jong", "geun", "rin", "saeng", "hwal", "si", "seol">>, <<"geun", "rin", "saeng", "hwal", "si", "seol">>},   \* '소매점' | '기타' | '주택' | '제1종근린생활시설' | '근린생활시설'
        a \in {0, 5000, 120000}}

\* A listing that gives the address alone and one that gives every field the
\* text shows.
BareListing ==
    [address |-> <<"dae", "gu", " ", "jung", "gu", " ", "dong", "seong", "ro", " ", "1", "2">>, ho |-> <<>>, deposit |-> None,   \* '대구 중구 동성로 12'
     monthly_rent |-> None, maintenance_fee |-> <<>>, move_in_date |-> <<>>,
     bathroom_count |-> <<>>, parking |-> <<>>, direction |-> <<>>, rights |-> <<>>,
     violation_building |-> FALSE, items_text |-> <<>>]

FullListing ==
    [address |-> <<"jung", "gu", " ", "dong", "seong", "ro", " ", "1", "2", "-", "3", "beon", "ji", " ", "dae", "myeong", "bil", "ding", " ", "2", "cheung">>, ho |-> <<"1", "0", "1", "ho">>, deposit |-> Some(1000),   \* '중구 동성로 12-3번지 대명빌딩 2층' | '101호'
     monthly_rent |-> Some(50), maintenance_fee |-> <<"5", "man", "won">>, move_in_date |-> <<"jeuk", "si">>,   \* '5만원' | '즉시'
     bathroom_count |-> <<"1">>, parking |-> <<"2", "dae">>, direction |-> <<"nam", "hyang">>, rights |-> <<"eops", "eum">>,   \* '2대' | '남향' | '없음'
     violation_building |-> TRUE, items_text |-> <<"mi", " ", "deung", "gi">>]   \* '미 등기'

\* A title record without any of the fields the text reads, and records that
\* hold some of them.
BareRecord ==
    [useAprDay |-> <<>>, pmsDay |-> <<>>, grndFlrCnt |-> <<>>, heit |-> <<>>,
     flrCnt |-> <<>>, indrAutoUtcnt |-> <<>>, oudrAutoUtcnt |-> <<>>,
     indrMechUtcnt |-> <<>>, oudrMechUtcnt |-> <<>>, pkngCnt |-> <<>>,
     totPkngCnt |-> <<>>, vlatGbCdNm |-> <<>>, vlatGbCd |-> <<>>]

\* _generate_blog_text(parsed, building, floor_result, floor, usage_judgment,
\* area_comparison, area_result, None) as line 292 calls it: with every choice
\* of the optional fields of the listing and the other address, unit label
\* and rent forms on one record, and with the bare and the full listing on
\* every record, floor, category and choice of known area figures
TextCalls ==
    LET Call(l, b, f, u, a) ==
            [fn |-> "_generate_blog_text",
             args |-> [parsed |-> l, building |-> b, floor |-> f,
                       usage_judgment |-> [judged_usage |-> u], area_comparison |-> a]]
        optional == {"deposit", "maintenance_fee", "move_in_date", "bathroom_count",
                     "parking", "direction", "rights", "items_text"}
        listings ==
            {[f \in DOMAIN BareListing |->
                IF f \in given THEN FullListing[f] ELSE BareListing[f]] :
                given \in SUBSET optional}
            \cup {[BareListing EXCEPT !.address = a] :
                    a \in {<<>>, <<"jung", "gu", " ", "dong", "seong", "ro", " ", "1", "2", "-", "3", "beon", "ji", " ", "dae", "myeong", "bil", "ding", " ", "2", "cheung">>, <<"su", "seong", "gu", " ", "beom", "eo", "dong", " ", "4", "5", " ", "3", "cheung", " ", "il", "bu">>}}   \* '중구 동성로 12-3번지 대명빌딩 2층' | '수성구 범어동 45 3층 일부'
            \cup {[BareListing EXCEPT !.ho = <<"1", "0", "1", "ho">>],   \* '101호'
                  [BareListing EXCEPT !.ho = <<"1", "0", "1", "ho">>, !.address = <<>>],   \* '101호'
                  [BareListing EXCEPT !.deposit = Some(12000), !.monthly_rent = Some(0)],
                  [BareListing EXCEPT !.deposit = Some(1000), !.monthly_rent = Some(1500)],
                  [BareListing EXCEPT !.violation_building = TRUE]}
        records ==
            {BareRecord,
             [BareRecord EXCEPT !.useAprDay = <<"2", "0", "0", "1", "0", "3", "1", "5">>, !.grndFlrCnt = <<"5">>,
                                !.indrAutoUtcnt = <<"3">>, !.oudrAutoUtcnt = <<"2", ".", "0">>,
                                !.vlatGbCdNm = <<"jeong", "sang">>],   \* '정상'
             [BareRecord EXCEPT !.pmsDay = <<"2", "0", "0", "1">>, !.heit = <<"1", "2", ".", "5">>, !.pkngCnt = <<"4">>,
                                !.vlatGbCd = <<"1">>],
             [BareRecord EXCEPT !.useAprDay = <<" ">>, !.flrCnt = <<" ", "7", " ">>, !.totPkngCnt = <<"x">>,
                                !.vlatGbCdNm = <<"wi", "ban">>],   \* '위반'
             [BareRecord EXCEPT !.grndFlrCnt = <<"0">>, !.indrAutoUtcnt = <<"0">>,
                                !.vlatGbCdNm = <<"hae", "dang", "eops", "eum">>],   \* '해당없음'
             [BareRecord EXCEPT !.grndFlrCnt = <<"5">>],
             [BareRecord EXCEPT !.useAprDay = <<"2", "0", "0", "1", "0", "3", "1", "5">>],
             [BareRecord EXCEPT !.indrMechUtcnt = <<"1", "2">>]}
        areas == {[actual_area_m2 |-> a, kakao_area |-> k, registry_area |-> r] :
                    a \in {0, 3000}, k \in {0, 3305}, r \in {0, 3350}}
    IN {Call(l, BareRecord, MaxFloor - 1, <<"je", "1", "jong", "geun", "rin", "saeng", "hwal", "si", "seol">>,   \* '제1종근린생활시설'
             [actual_area_m2 |-> 3000, kakao_area |-> 3305, registry_area |-> 3350]) :
           l \in listings}
       \cup {Call(l, b, f, u, a) :
               l \in {BareListing, FullListing}, b \in records,
               f \in {-1, 0, MaxFloor - 1}, u \in {<<"je", "1", "jong", "geun", "rin", "saeng", "hwal", "si", "seol">>, <<>>}, a \in areas}   \* '제1종근린생활시설'

FnCalls ==
    FloorCalls \cup CompareCalls \cup AreaSourceCalls \cup ClassifyCalls \cup FilterCalls
        \cup JudgeCalls

FnInit ==
    /\ \E call \in FnCalls : pc = call.fn /\ args = call.args
    /\ result = BaseResp
    /\ listing = CHOOSE l \in Listings : ~l.address
    /\ title_result = CHOOSE t \in TitleResults : ~t.success
    /\ turn = 1
    /\ answers = <<>>
    /\ buildings = <<>>
    /\ building = None
    /\ floor_result = None
    /\ area_result = None
    /\ unit_result = None
    /\ unit_idx = UIdxNone
    /\ all_units = <<>>
    /\ selected_units_info = None
    /\ usage_judgment = None
    /\ area_comparison = NoComparison
    /\ futures = NoFutures
    /\ calls = NoCalls
    /\ stages = <<>>

pipeline == <<listing, title_result, turn, answers, buildings, building, floor_result,
              area_result, unit_result, unit_idx, all_units, selected_units_info,
              usage_judgment, area_comparison, futures, calls, stages>>

\* parse_floor_string(registry_floor_str)
ParseFloorReturns ==
    /\ pc = "parse_floor_string"
    /\ result' = [parsed |-> parse_floor_string(args.registry_floor_str)]
    /\ pc' = "match_floor"
    /\ UNCHANGED <<args, pipeline>>

\* match_floor(search_floor, registry_floor_str) and, for the same string,
\* match_floor(-search_floor, registry_floor_str)
MatchFloorReturns ==
    /\ pc = "match_floor"
    /\ result' = [parsed |-> result.parsed,
                  matched |-> match_floor(args.search_floor, args.registry_floor_str),
                  matched_opposite |->
                      match_floor(-args.search_floor, args.registry_floor_str)]
    /\ pc' = "returned"
    /\ UNCHANGED <<args, pipeline>>

\* _compare_areas(parsed, building, floor_result, area_result, floor,
\*                selected_units_info = ...)
CompareAreasReturns ==
    /\ pc = "_compare_areas"
    /\ result' = _compare_areas(args.parsed, args.floor_result, args.area_result,
                                args.floor, args.selected_units_info)
    /\ pc' = "returned"
    /\ UNCHANGED <<args, pipeline>>

\* _classify_usage_master(api_usage_str, area_m2, ...)
ClassifierReturns ==
    /\ pc = "_classify_usage_master"
    /\ result' = _classify_usage_master(args.api_usage_str, args.area_m2)
    /\ pc' = "returned"
    /\ UNCHANGED <<args, pipeline>>

\* lines 163-167 with _filter_buildings_by_dong(buildings, dong)
WingFilterReturns ==
    /\ pc = "_filter_buildings_by_dong"
    /\ result' = FilterLookup(args.buildings, args.dong)
    /\ pc' = "returned"
    /\ UNCHANGED <<args, pipeline>>

\* _judge_usage(building, parsed, floor_result, floor, area_result)
JudgeUsageReturns ==
    /\ pc = "_judge_usage"
    /\ result' = _judge_usage(args.building, args.parsed, args.floor_result, args.floor,
                              args.area_result)
    /\ pc' = "returned"
    /\ UNCHANGED <<args, pipeline>>

\* line 292: _generate_blog_text(parsed, building, floor_result, floor,
\*                               usage_judgment, area_comparison, area_result, None)
BlogTextReturns ==
    /\ pc = "_generate_blog_text"
    /\ result' = [result_lines |->
                      _generate_blog_text(args.parsed, args.building, args.floor,
                                          args.usage_judgment, args.area_comparison)]
    /\ pc' = "_assemble_result_text"
    /\ UNCHANGED <<args, pipeline>>

\* line 308: _assemble_result_text(result_lines)
AssembleReturns ==
    /\ pc = "_assemble_result_text"
    /\ result' = _assemble_result_text(result.result_lines)
    /\ pc' = "area_text"
    /\ UNCHANGED <<args, pipeline>>

\* lines 311-326: the area figures written into the text, the text stripped
AreaTextWritten ==
    /\ pc = "area_text"
    /\ result' = [text |-> Strip(WithAreaText(result.result_text, result.area_options)),
                  area_options |-> result.area_options]
    /\ pc' = "text_returned"
    /\ UNCHANGED <<args, pipeline>>

FnNext ==
    \/ ParseFloorReturns
    \/ MatchFloorReturns
    \/ CompareAreasReturns
    \/ ClassifierReturns
    \/ WingFilterReturns
    \/ JudgeUsageReturns

FnSpec == FnInit /\ [][FnNext]_vars

(***************************************************************************)
(* The text of a success, steps 10 and 11 of _process_internal, on its own: *)
(* the three steps of lines 291-326 applied to the values the earlier       *)
(* stages hand over.                                                        *)
(***************************************************************************)
TextInit ==
    /\ \E call \in TextCalls : pc = call.fn /\ args = call.args
    /\ result = BaseResp
    /\ listing = CHOOSE l \in Listings : ~l.address
    /\ title_result = CHOOSE t \in TitleResults : ~t.success
    /\ turn = 1
    /\ answers = <<>>
    /\ buildings = <<>>
    /\ building = None
    /\ floor_result = None
    /\ area_result = None
    /\ unit_result = None
    /\ unit_idx = UIdxNone
    /\ all_units = <<>>
    /\ selected_units_info = None
    /\ usage_judgment = None
    /\ area_comparison = NoComparison
    /\ futures = NoFutures
    /\ calls = NoCalls
    /\ stages = <<>>

TextNext ==
    \/ BlogTextReturns
    \/ AssembleReturns
    \/ AreaTextWritten

TextSpec == TextInit /\ [][TextNext]_vars

(***************************************************************************)
(* A session with a caller that follows the answers: after an answer that  *)
(* asks for a selection it calls process() again with the same text, the   *)
(* selections made so far, a valid value for the selection asked for, and  *)
(* the building list and detail results of the answer (lines 172-178,      *)
(* 209-222, 250-262 return them for that purpose).                         *)
(***************************************************************************)
MaxTurns == 4

NeedKinds == {"need_building_selection", "need_unit_selection", "need_usage_selection"}

\* a call of process(text, **a): the locals of _process_internal start afresh
Invoke(a) ==
    /\ args' = a
    /\ turn' = turn + 1
    /\ answers' = Append(answers, Answer(result))
    /\ pc' = "parse"
    /\ buildings' = <<>>
    /\ building' = None
    /\ floor_result' = None
    /\ area_result' = None
    /\ unit_result' = None
    /\ unit_idx' = a.unit_idx
    /\ all_units' = <<>>
    /\ selected_units_info' = None
    /\ usage_judgment' = None
    /\ area_comparison' = NoComparison
    /\ futures' = NoFutures
    /\ calls' = NoCalls
    /\ stages' = <<>>
    /\ result' = BaseResp
    /\ UNCHANGED <<listing, title_result>>

\* the arguments with the payloads of an answer passed back
WithCaches(a, resp) ==
    [a EXCEPT !.cached_buildings = resp.buildings,
              !.cached_floor_result = resp.floor_result,
              !.cached_area_result = resp.area_result,
              !.cached_unit_result = resp.unit_result]

\* the values that answer the selection a response asks for
ValidSelections(a, resp) ==
    CASE Kind(resp) = "need_building_selection" ->
           {[a EXCEPT !.building_idx = Some(i)] : i \in 0..(Len(resp.buildings[1]) - 1)}
      [] Kind(resp) = "need_unit_selection" ->
           {[a EXCEPT !.unit_idx = u] :
              u \in {UIdxTotal} \cup {UIdxInt(i) : i \in 0..(Len(resp.units) - 1)}}
      [] Kind(resp) = "need_usage_selection" ->
           {[a EXCEPT !.selected_usage = Some(s)] : s \in {U_1jong, U_2jong}}
      [] OTHER -> {}

\* the running call was made without any cache after the session's first call
IsReplay == turn > 1 /\ args.cached_buildings = None

\* a registry call of the running call raised
Raised ==
    \/ \E f \in {"floor", "area", "unit"} : futures[f] = "raised"
    \/ /\ pc = "done"
       /\ stages[Len(stages)] = "lookup"
       /\ title_result.success
       /\ title_result.data # <<>>

Resume ==
    /\ pc = "done"
    /\ Kind(result) \in NeedKinds
    /\ ~IsReplay
    /\ turn < MaxTurns
    /\ \E a \in ValidSelections(args, result) : Invoke(WithCaches(a, result))

\* the call just answered is made once more with the same selections and no
\* caches, against a registry that answers as before
Replay ==
    /\ pc = "done"
    /\ turn > 1
    /\ ~IsReplay
    /\ ~Raised
    /\ Invoke([args EXCEPT !.cached_buildings = None, !.cached_floor_result = None,
                           !.cached_area_result = None, !.cached_unit_result = None])

CallStep ==
    \/ ParseListing
    \/ ParseAddress
    \/ LookupBuildings
    \/ BuildingSelection
    \/ FetchDetails
    \/ FloorCallEnds
    \/ AreaCallEnds
    \/ UnitCallEnds
    \/ JoinFetch
    \/ UnitSelection
    \/ Classify
    \/ UsageSelection
    \/ ReconcileArea
    \/ Assemble

SessionNext == CallStep \/ Resume \/ Replay

SessionSpec == Init /\ [][SessionNext]_vars

\* the caller changes its mind about the building: it calls again with another
\* index of the list and passes back what the answer carried
SwitchBuilding ==
    /\ pc = "done"
    /\ Kind(result) \in (NeedKinds \ {"need_building_selection"}) \cup {"success"}
    /\ args.building_idx # None
    /\ ~IsReplay
    /\ turn < MaxTurns
    /\ \E i \in 0..(Len(result.buildings[1]) - 1) :
         /\ Some(i) # args.building_idx
         /\ Invoke(WithCaches([args EXCEPT !.building_idx = Some(i)], result))

SwitchNext == CallStep \/ Resume \/ SwitchBuilding

SwitchSpec == Init /\ [][SwitchNext]_vars
(***************************************************************************)
(* Properties.                                                             *)
(***************************************************************************)
Done == pc = "done"

Entered(stage) == \E i \in DOMAIN stages : stages[i] = stage

LastStage == stages[Len(stages)]

OutcomeKeys ==
    {"error", "text", "need_building_selection", "need_unit_selection",
     "need_usage_selection"}

NeedKeys == {"need_building_selection", "need_unit_selection", "need_usage_selection"}

DetailCalls == calls.floor + calls.area + calls.unit

\* C1: every answer of process() is exactly one of the five outcomes: an
\* error, a text, or exactly one of the three need_* flags; at most one need_*
\* flag is set, and an answer with an error or a text carries none.
C1_ExactlyOneOutcome ==
    Done =>
      /\ Cardinality({k \in OutcomeKeys : result[k]}) = 1
      /\ Cardinality({k \in NeedKeys : result[k]}) <= 1
      /\ (result.error \/ result.text) => \A k \in NeedKeys : ~result[k]

\* a second call that answers with the usage question
C1_Witness == Done /\ turn = 2 /\ result.need_usage_selection /\ ~result.need_unit_selection

\* the three ambiguities of C2, on the state of the running call
SeveralBuildingsNoIndex == Len(buildings) > 1 /\ args.building_idx = None

CandidateUnitsOfLookupFloor ==
    _get_all_units_on_floor(area_result, SearchFloor(listing.floor), floor_result)

SeveralUnitsNoIndex ==
    /\ Len(CandidateUnitsOfLookupFloor) > 1
    /\ args.unit_idx.kind = "none"
    /\ _auto_match_ho(listing.ho, CandidateUnitsOfLookupFloor) = None

ClassifiedNow ==
    _judge_usage(building[1], listing, floor_result, listing.floor, area_result)

StorefrontNoChoice ==
    /\ building # None
    /\ ClassifiedNow.judged_usage = NEED_USAGE_SELECTION
    /\ ~Truthy(args.selected_usage)

\* C2: process() never answers with a text while an ambiguity is unresolved:
\* several candidate buildings and no building index; several candidate units
\* on the floor used for the lookups (the default floor included), no unit
\* index and no unique match of the unit label; the storefront sentinel and no
\* usage choice.
C2_NoSuccessWhileAmbiguous ==
    (Done /\ result.text) =>
      /\ ~SeveralBuildingsNoIndex
      /\ ~SeveralUnitsNoIndex
      /\ ~StorefrontNoChoice

\* C3: for each detail set on its own, a cache that is not None means that the
\* registry is not called for that set and that the cached value is the one
\* used, whatever the other caches are.
C3_CachedDetailNotRefetched ==
    /\ args.cached_floor_result # None =>
         /\ calls.floor = 0
         /\ Entered("unit") => floor_result = args.cached_floor_result
    /\ args.cached_area_result # None =>
         /\ calls.area = 0
         /\ Entered("unit") => area_result = args.cached_area_result
    /\ args.cached_unit_result # None =>
         /\ calls.unit = 0
         /\ Entered("unit") => unit_result = args.cached_unit_result

\* C4: with a building list passed in, the title lookup is not called and the
\* list is used as it is, the wing filter not applied; a second call with the
\* two candidates of the first answer and index 1 selects the second
\* candidate without a title lookup.
C4_CachedBuildingsUsed ==
    args.cached_buildings # None =>
      /\ calls.title = 0
      /\ Entered("select_building") => buildings = args.cached_buildings[1]
      /\ (Done /\ result.buildings # None) => result.buildings = args.cached_buildings
      /\ (Done /\ Len(args.cached_buildings[1]) = 2 /\ args.building_idx = Some(1)) =>
           /\ Entered("fetch")
           /\ building = Some(args.cached_buildings[1][2])

\* the second call of the scenario, past the building selection
C4_Witness ==
    /\ turn = 2
    /\ args.cached_buildings # None
    /\ Len(args.cached_buildings[1]) = 2
    /\ args.building_idx = Some(1)
    /\ Entered("fetch")
    /\ building = Some(args.cached_buildings[1][2])
    /\ calls.title = 0

\* a building index or an int unit index that denotes none of the candidates
BuildingIndexOutOfRange ==
    /\ args.building_idx # None
    /\ Entered("select_building")
    /\ (args.building_idx[1] < 0 \/ args.building_idx[1] >= Len(buildings))

UnitIndexOutOfRange ==
    /\ args.unit_idx.kind = "int"
    /\ Entered("unit")
    /\ (args.unit_idx.val < 0 \/ args.unit_idx.val >= Len(CandidateUnitsOfLookupFloor))

\* C5: a call whose building index or int unit index denotes none of the
\* candidates (at or above their number, or negative) answers with an error,
\* also when there is a single candidate.
C5_IndexOutOfRangeIsError ==
    (Done /\ (BuildingIndexOutOfRange \/ UnitIndexOutOfRange)) => result.error

\* C6: the stages run in one fixed order; no detail call is made before the
\* building is determined; the unit question is asked only with the building
\* determined, the usage question only after the unit stage; a stage that
\* answers ends the call: no later stage has run and no later call was made.
C6_FixedStageOrder ==
    /\ Len(stages) <= Len(StageOrder)
    /\ \A i \in DOMAIN stages : stages[i] = StageOrder[i]
    /\ DetailCalls > 0 => (building # None /\ Entered("select_building"))
    /\ (Done /\ result.need_building_selection) =>
         /\ LastStage = "select_building"
         /\ DetailCalls = 0
         /\ building = None
    /\ (Done /\ result.need_unit_selection) =>
         /\ LastStage = "unit"
         /\ building # None
         /\ usage_judgment = None
    /\ (Done /\ result.need_usage_selection) =>
         /\ LastStage = "usage_selection"
         /\ Entered("unit")
         /\ area_comparison = NoComparison
    /\ (Done /\ result.text) => stages = StageOrder
    /\ (Done /\ ~Entered("fetch")) => DetailCalls = 0
    /\ (Done /\ ~Entered("lookup")) => calls.title = 0

\* the usage question, asked after the details were fetched for the building
C6_Witness ==
    /\ Done
    /\ result.need_usage_selection
    /\ calls.floor = 1
    /\ building # None

\* a detail call of the running call has raised
DetailCallRaised == \E f \in {"floor", "area", "unit"} : futures[f] = "raised"

\* C7: when a detail call raises, the call answers with an error: it does not
\* go on with the results of the other calls, it does not call again, and the
\* exception does not leave process().
C7_RaisedDetailCallIsError ==
    /\ DetailCallRaised => pc \in {"fetching", "done"}
    /\ (DetailCallRaised /\ Done) => result = ErrorResp
    /\ DetailCallRaised =>
         /\ floor_result = args.cached_floor_result
         /\ area_result = args.cached_area_result
         /\ unit_result = args.cached_unit_result
    /\ calls.floor <= 1 /\ calls.area <= 1 /\ calls.unit <= 1

\* the unit-area call raised while the floor call returned
C7_Witness ==
    /\ Done
    /\ futures.floor = "done"
    /\ futures.area = "raised"
    /\ result.error

\* the building's wing label has the digits of the listing's
WingMatches(bld) ==
    /\ Strip(bld.dongNm) # <<>>
    /\ OnlyDigits(listing.dong) # <<>>
    /\ OnlyDigits(Strip(bld.dongNm)) = OnlyDigits(listing.dong)

\* the candidates that remain: the list passed in, or the lookup's buildings
\* narrowed to the listing's wing when that leaves any
RemainingCandidates ==
    IF args.cached_buildings # None THEN args.cached_buildings[1]
    ELSE IF /\ listing.dong # <<>>
            /\ Len(title_result.data) > 1
            /\ \E i \in DOMAIN title_result.data : WingMatches(title_result.data[i])
         THEN SelectSeq(title_result.data, WingMatches)
         ELSE title_result.data

\* C8: with a building list at hand, the call asks for the building exactly
\* when more than one candidate remains after the wing filter and no building
\* index was passed; the list it returns is that remaining set and the count
\* its length.
C8_NeedsBuildingIff ==
    (Done /\ Entered("select_building")) =>
      /\ result.need_building_selection <=>
           (Len(RemainingCandidates) > 1 /\ args.building_idx = None)
      /\ result.need_building_selection =>
           /\ result.buildings = Some(RemainingCandidates)
           /\ result.building_count = Len(RemainingCandidates)

\* two buildings of the listing's wing remain
C8_Witness ==
    /\ Done
    /\ result.need_building_selection
    /\ listing.dong # <<>>
    /\ result.building_count = 2
    /\ \A i \in 1..2 : WingMatches(result.buildings[1][i])

\* the records of a detail result on the listing's floor
RecordsOnFloor(res) ==
    IF HasData(res)
    THEN SelectSeq(DataOf(res), LAMBDA r : match_floor(listing.floor, Strip(r.flrNoNm)))
    ELSE <<>>

IsExclusiveRecord(r) == Contains(r.exposPubuseGbCdNm, S_jeonyu)

HasArea(r) == r.area > 0

\* the 전유 records of the unit-area result on the listing's floor
ExclusiveRecordsOnFloor(res) == SelectSeq(RecordsOnFloor(res), IsExclusiveRecord)

\* the candidate is made of the record
FromRecord(u, r, label) ==
    /\ u.ho = label
    /\ u.area = r.area
    /\ u.main_usage = r.mainPurpsCdNm
    /\ u.etc_usage = r.etcPurps
    /\ u.floor = Strip(r.flrNoNm)

\* the listing's unit label matches exactly one of the candidates
UniqueLabelMatch(units) ==
    /\ listing.ho # <<>>
    /\ Cardinality({i \in DOMAIN units :
                      \/ NormHo(units[i].ho) = NormHo(listing.ho)
                      \/ Lower(NormHo(units[i].ho)) = Lower(NormHo(listing.ho))}) = 1

C10_NeedsUsageIff ==
    (Done /\ Entered("classify")) =>
      LET sentinel == ClassifiedNow.judged_usage = NEED_USAGE_SELECTION
      IN /\ result.need_usage_selection <=> (sentinel /\ ~Truthy(args.selected_usage))
         /\ (sentinel /\ Truthy(args.selected_usage)) =>
              /\ result.text
              /\ result.usage_judgment[1].judged_usage = args.selected_usage[1]

\* the second call passes the choice for a storefront
C10_Witness ==
    /\ Done
    /\ turn = 2
    /\ ClassifiedNow.judged_usage = NEED_USAGE_SELECTION
    /\ Truthy(args.selected_usage)
    /\ result.text
    /\ result.usage_judgment[1].judged_usage = args.selected_usage[1]

\* the candidates of the unit step, from the registry's records: the 전유
\* records with an area on the listing's floor
CandidateRecords ==
    SelectSeq(ExclusiveRecordsOnFloor(area_result), HasArea)

RECURSIVE RecordAreaSum(_)
RecordAreaSum(recs) ==
    IF recs = <<>> THEN 0 ELSE recs[1].area + RecordAreaSum(Tail(recs))

\* C11: when the listing's floor has more than one candidate unit and the
\* call is made with unit index "total", a text answer reports as registry
\* area the sum of the areas of all candidates of the floor, whether the
\* listing states an area or not, and the breakdown lists each candidate once.
C11_WholeFloorAreaIsSum ==
    (Done /\ result.text /\ args.unit_idx = UIdxTotal /\ Len(CandidateRecords) > 1) =>
      LET cmp == result.area_comparison[1]
          recs == CandidateRecords
      IN /\ cmp.registry_area = RecordAreaSum(recs)
         /\ cmp.selected_unit_area = RecordAreaSum(recs)
         /\ cmp.selected_unit_type = "total"
         /\ Len(cmp.unit_breakdown) = Len(recs)
         /\ \A i \in DOMAIN recs :
              /\ cmp.unit_breakdown[i].ho = recs[i].hoNm
              /\ cmp.unit_breakdown[i].area = recs[i].area
              /\ cmp.unit_breakdown[i].usage = recs[i].mainPurpsCdNm

\* three candidates, the listing states an area that is not their sum
C11_Witness ==
    /\ Done
    /\ result.text
    /\ args.unit_idx = UIdxTotal
    /\ Len(CandidateRecords) = 3
    /\ listing.area_m2 # 0
    /\ listing.area_m2 # RecordAreaSum(CandidateRecords)
    /\ result.area_comparison[1].registry_area = RecordAreaSum(CandidateRecords)

\* the candidates (from 1) whose label is the listing's, the suffix '호' and
\* the surrounding blanks removed, whatever the case of the letters
LabelMatches ==
    IF listing.ho = <<>> THEN {}
    ELSE {i \in DOMAIN all_units :
            Lower(Strip(Replace(all_units[i].ho, S_ho, <<>>)))
              = Lower(Strip(Replace(listing.ho, S_ho, <<>>)))}

FloorReturned == pc = "returned" /\ "registry_floor_str" \in DOMAIN args

\* the five spellings of the claim: 'k층', '지상k', 'k' for floor k, 'Bk', '-k'
\* for basement k
AboveEncodings == {NatToStr(k) \o S_cheung : k \in 1..MaxFloor}
                  \cup {S_jisang \o NatToStr(k) : k \in 1..MaxFloor}
                  \cup {NatToStr(k) : k \in 1..MaxFloor}

BelowEncodings == {<<"B">> \o NatToStr(k) : k \in 1..MaxFloor}
                  \cup {<<"-">> \o NatToStr(k) : k \in 1..MaxFloor}

\* C19: for the spellings '3층', '지상3', '3', 'B2', '-2' of a floor,
\* match_floor(n, s) holds exactly when parse_floor_string(s) is n
C19_MatchIffParsed ==
    (FloorReturned /\ args.registry_floor_str \in AboveEncodings \cup BelowEncodings)
        => (result.matched <=> result.parsed = <<args.search_floor>>)

\* C20: a basement spelling never matches the floor above ground of the same
\* number, a spelling above ground never matches the basement, and no string
\* matches both n and -n
C20_SignDistinguished ==
    FloorReturned =>
        /\ ~(result.matched /\ result.matched_opposite)
        /\ (args.registry_floor_str \in BelowEncodings
              \cup {S_jiha \o NatToStr(k) : k \in 1..MaxFloor})
             => (result.matched => args.search_floor < 0)
        /\ args.registry_floor_str \in AboveEncodings
             => (result.matched => args.search_floor > 0)

\* the call of _compare_areas has returned
CompareReturned == pc = "returned" /\ "selected_units_info" \in DOMAIN args

\* C18: with a listing area and a registry area the match flag is true exactly
\* when the two differ by less than 0.1 square metre (true at 0.09, false at
\* 0.10 and 0.11); with either area missing there is neither a flag nor a
\* difference
C18_MatchIffWithinTenth ==
    CompareReturned =>
        IF result = None THEN args.parsed.area_m2 = 0
        ELSE LET c == result[1]
             IN IF c.registry_area # 0 /\ c.kakao_area # 0
                THEN /\ c.has_diff
                     /\ c.area_match <=> (Abs(c.registry_area - c.kakao_area) < 10)
                ELSE ~c.has_diff

\* the call answered with the text
Success == Done /\ result.text

\* C15: in every Success answer, and in every result of the classification, the
\* judged category is one of the statutory categories or a sentinel unless the
\* warning flag is set; no caller's usage choice makes a Success whose category
\* is a string outside the set with the flag unset
C15_CategoryInClosedSet ==
    stages # <<>> =>
    /\ (LastStage = "classify" /\ usage_judgment # None) =>
          \/ usage_judgment[1].judged_usage \in CategorySet \cup Sentinels
          \/ usage_judgment[1].show_usage_warning
    /\ Success =>
          \/ result.usage_judgment[1].judged_usage \in CategorySet \cup Sentinels
          \/ result.usage_judgment[1].show_usage_warning

\* the call of _classify_usage_master has returned
ClassifierReturned == pc = "returned" /\ "api_usage_str" \in DOMAIN args

HasFirstTierPhrase(s) == Contains(s, <<"je", "1", "jong", "geun", "rin", "saeng", "hwal", "si", "seol">>) \/ Contains(s, <<"je", "1", "jong", " ", "geun", "rin", "saeng", "hwal", "si", "seol">>)   \* '제1종근린생활시설' | '제1종 근린생활시설'

HasSecondTierPhrase(s) == Contains(s, <<"je", "2", "jong", "geun", "rin", "saeng", "hwal", "si", "seol">>) \/ Contains(s, <<"je", "2", "jong", " ", "geun", "rin", "saeng", "hwal", "si", "seol">>)   \* '제2종근린생활시설' | '제2종 근린생활시설'

\* the string names storefront and residence together: '점포 및 주택',
\* '주택 및 점포', or '점포', '주택' and '및' anywhere
StorefrontAndResidence(s) ==
    Contains(s, <<"jeom", "po">>) /\ Contains(s, <<"ju", "taek">>) /\ Contains(s, <<"mich">>)   \* '점포' | '주택' | '및'

CutoffCategory(kw, area) ==
    CASE kw = <<"so", "mae", "jeom">> -> IF area < 100000 THEN U_1jong ELSE <<"pan", "mae", "si", "seol">>   \* '소매점' | '판매시설'
      [] kw \in {<<"hyu", "ge", "eum", "sik", "jeom">>, <<"keo", "pi", "syop">>, <<"je", "gwa", "jeom">>, <<"ka", "pe">>} ->   \* '휴게음식점' | '커피숍' | '제과점' | '카페'
            IF area < 30000 THEN U_1jong ELSE U_2jong
      [] kw \in {<<"sa", "mu", "so">>, <<"sa", "mu", "sil">>} ->   \* '사무소' | '사무실'
            IF area < 3000 THEN U_1jong ELSE IF area < 50000 THEN U_2jong ELSE <<"eop", "mu", "si", "seol">>   \* '업무시설'
      [] kw \in {<<"hak", "won">>, <<"gyo", "seup", "so">>} -> IF area < 50000 THEN U_2jong ELSE <<"gyo", "yuk", "yeon", "gu", "si", "seol">>   \* '학원' | '교습소' | '교육연구시설'
      [] kw \in {<<"che", "yuk", "do", "jang">>, <<"hel", "seu", "jang">>} -> IF area < 50000 THEN U_1jong ELSE <<"un", "dong", "si", "seol">>   \* '체육도장' | '헬스장' | '운동시설'
      [] kw \in {<<"p", "c", "bang">>, <<"P", "C", "bang">>, <<"ge", "im", "jang">>} -> IF area < 50000 THEN U_2jong ELSE <<"wi", "rak", "si", "seol">>   \* 'pc방' | 'PC방' | '게임장' | '위락시설'

\* C17: a keyword of a cutoff group is classified as the lower tier at every
\* area below the group's cutoff and as the higher tier at the cutoff and above:
\* retail 1000, food and cafe 300, office 30 and 500, academy 500, gym 500,
\* arcade 500
C17_CutoffSides ==
    (ClassifierReturned /\ args.api_usage_str \in ThresholdKeywords /\ args.area_m2 > 0) =>
        result = [usage |-> CutoffCategory(args.api_usage_str, args.area_m2),
                  warn |-> FALSE, warn_point |-> FALSE]

\* a cafe of exactly 300 square metres was classified as second tier
C17_Witness ==
    /\ ClassifierReturned
    /\ args.api_usage_str = <<"ka", "pe">>   \* '카페'
    /\ args.area_m2 = 30000
    /\ result.usage = U_2jong

\* the wing filter has returned
FilterReturned == pc = "returned" /\ "dong" \in DOMAIN args

\* a is b with some elements left out, the order kept
IsSubList(a, b) ==
    \E f \in [1..Len(a) -> 1..Len(b)] :
        /\ \A i \in 1..Len(a) : a[i] = b[f[i]]
        /\ \A i, j \in 1..Len(a) : i < j => f[i] < f[j]

\* the candidates whose wing label has the digits of the listing's wing label
SameDigits(blds, dong) ==
    SelectSeq(blds, LAMBDA bld : OnlyDigits(bld.dongNm) = OnlyDigits(dong))

\* C13 as stated: with a wing named and several candidates the result is the
\* candidates whose label has the same digit string as the listing's label, or
\* the whole list when there is none; otherwise the list is unchanged
C13_SameDigitString ==
    FilterReturned =>
        result = IF args.dong # <<>> /\ Len(args.buildings) > 1
                    /\ SameDigits(args.buildings, args.dong) # <<>>
                 THEN SameDigits(args.buildings, args.dong)
                 ELSE args.buildings

\* C13: with a wing named and several candidates the result is the candidates
\* whose label has the same digit string as the listing's label, that string
\* having at least one digit, or the whole list when there is none; otherwise
\* the list is unchanged; the result is never empty and is a sub-list of the
\* lookup's list in its order
C13_SameNonEmptyDigitString ==
    FilterReturned =>
        LET same == IF OnlyDigits(args.dong) = <<>> THEN <<>>
                    ELSE SameDigits(args.buildings, args.dong)
        IN /\ result = IF args.dong # <<>> /\ Len(args.buildings) > 1 /\ same # <<>>
                       THEN same ELSE args.buildings
           /\ result # <<>>
           /\ IsSubList(result, args.buildings)

\* listing wing '101동', candidates '제101동' and '102동': the first alone is kept
C13_Witness ==
    /\ FilterReturned
    /\ args.dong = <<"1", "0", "1", "dong">>   \* '101동'
    /\ Len(args.buildings) = 2
    /\ args.buildings[1].dongNm = <<"je", "1", "0", "1", "dong">>   \* '제101동'
    /\ args.buildings[2].dongNm = <<"1", "0", "2", "dong">>   \* '102동'
    /\ result = <<args.buildings[1]>>

RegistryCalls == calls.title + DetailCalls

\* C14: a listing without an address, or an address whose codes do not
\* resolve, ends the call in an Error with no registry call at all; a title
\* lookup that is unsuccessful or empty ends it in an Error with no detail call
C14_EarlyErrorsCallNothing ==
    Done =>
        /\ (~listing.address \/ ~listing.code_ok)
             => (result.error /\ RegistryCalls = 0)
        /\ (calls.title > 0 /\ (~title_result.success \/ title_result.data = <<>>))
             => (result.error /\ DetailCalls = 0)

\* a call for a listing whose address has no codes has ended
C14_Witness ==
    /\ Done
    /\ listing.address
    /\ ~listing.code_ok
    /\ result.error
    /\ LastStage = "address"

\* the unit-area records that are exclusively owned, on the listing's floor,
\* carry the listing's label and have an area
LabelRecordsOnFloor ==
    IF args.parsed.ho = <<>> \/ ~HasData(args.area_result) THEN <<>>
    ELSE SelectSeq(DataOf(args.area_result),
                   LAMBDA r : /\ Contains(r.exposPubuseGbCdNm, S_jeonyu)
                              /\ NormHo(r.hoNm) = NormHo(args.parsed.ho)
                              /\ match_floor(SearchFloor(args.floor), Strip(r.flrNoNm))
                              /\ r.area > 0)

\* the floor-overview records of the listing's floor that have an area
FloorRecordsOnFloor ==
    IF ~HasData(args.floor_result) THEN <<>>
    ELSE SelectSeq(DataOf(args.floor_result),
                   LAMBDA r : /\ match_floor(SearchFloor(args.floor), Strip(r.flrNoNm))
                              /\ r.area > 0)

\* C24: the registry area of the comparison is the selected unit's area; else
\* the area of an exclusively owned unit record on the listing's floor with the
\* listing's label; else the area of a floor record of that floor; a unit
\* record with the label on another floor is never used
C24_RegistryAreaOrder ==
    (CompareReturned /\ result # None) =>
        result[1].registry_area =
            IF args.selected_units_info # None /\ args.selected_units_info[1].area # 0
            THEN args.selected_units_info[1].area
            ELSE IF LabelRecordsOnFloor # <<>> THEN LabelRecordsOnFloor[1].area
            ELSE IF FloorRecordsOnFloor # <<>> THEN FloorRecordsOnFloor[1].area
            ELSE 0

\* the keywords of the groups of the keyword and cutoff stage
Stage2Keywords ==
    {<<"so", "mae", "jeom">>, <<"hyu", "ge", "eum", "sik", "jeom">>, <<"keo", "pi", "syop">>, <<"je", "gwa", "jeom">>, <<"ka", "pe">>, <<"il", "ban", "eum", "sik", "jeom">>, <<"sa", "mu", "so">>, <<"sa", "mu", "sil">>, <<"hak", "won">>,   \* '소매점' | '휴게음식점' | '커피숍' | '제과점' | '카페' | '일반음식점' | '사무소' | '사무실' | '학원'
     <<"gyo", "seup", "so">>, <<"no", "rae", "yeon", "seup", "jang">>, <<"no", "rae", "bang">>, <<"ui", "won">>, <<"chi", "gwa">>, <<"han", "ui", "won">>, <<"i", "yong", "won">>, <<"mi", "yong", "won">>, <<"se", "tak", "so">>,   \* '교습소' | '노래연습장' | '노래방' | '의원' | '치과' | '한의원' | '이용원' | '미용원' | '세탁소'
     <<"mi", "yong", "sil">>, <<"i", "bal", "so">>, <<"che", "yuk", "do", "jang">>, <<"hel", "seu", "jang">>, <<"p", "c", "bang">>, <<"ge", "im", "jang">>}   \* '미용실' | '이발소' | '체육도장' | '헬스장' | 'pc방' | '게임장'

CommercialWords ==
    {<<"jeom", "po">>, <<"so", "mae", "jeom">>, <<"syu", "peo", "ma", "kes">>, <<"ma", "teu">>, <<"pyeon", "ui", "jeom">>, <<"sang", "jeom">>, <<"mae", "jang">>, <<"sa", "mu", "so">>, <<"sa", "mu", "sil">>,   \* '점포' | '소매점' | '슈퍼마켓' | '마트' | '편의점' | '상점' | '매장' | '사무소' | '사무실'
     <<"hyu", "ge", "eum", "sik", "jeom">>, <<"il", "ban", "eum", "sik", "jeom">>, <<"ka", "pe">>, <<"keo", "pi", "syop">>, <<"hak", "won">>, <<"gyo", "seup", "so">>, <<"no", "rae", "yeon", "seup", "jang">>, <<"ui", "won">>, <<"byeong", "won">>,   \* '휴게음식점' | '일반음식점' | '카페' | '커피숍' | '학원' | '교습소' | '노래연습장' | '의원' | '병원'
     <<"mi", "yong", "won">>, <<"i", "yong", "won">>}   \* '미용원' | '이용원'

DetachedWords == {<<"dan", "dok">>, <<"da", "jung">>, <<"da", "ga", "gu">>, <<"gong", "gwan">>}   \* '단독' | '다중' | '다가구' | '공관'

MultiUnitWords == {<<"a", "pa", "teu">>, <<"yeon", "rip">>, <<"da", "se", "dae">>, <<"gi", "suk", "sa">>, <<"gong", "dong", "ju", "taek">>}   \* '아파트' | '연립' | '다세대' | '기숙사' | '공동주택'

\* the string reaches the residence test: no phrase of the first stage, no
\* keyword of the second, no commercial keyword, and a residence keyword
ResidenceOnly(s) ==
    /\ ~HasFirstTierPhrase(s) /\ ~HasSecondTierPhrase(s) /\ ~StorefrontAndResidence(s)
    /\ ~ContainsAny(Lower(s), Stage2Keywords \cup CommercialWords)
    /\ ContainsAny(s, DetachedWords \cup MultiUnitWords)

\* C26: a string with a residence keyword and nothing of the earlier stages or
\* commercial is classified 단독주택 when it has a detached keyword and 공동주택
\* otherwise, for every area, an absent or zero one included
C26_ResidenceForEveryArea ==
    (ClassifierReturned /\ ResidenceOnly(args.api_usage_str)) =>
        result = [usage |-> IF ContainsAny(args.api_usage_str, DetachedWords)
                            THEN <<"dan", "dok", "ju", "taek">> ELSE <<"gong", "dong", "ju", "taek">>,   \* '단독주택' | '공동주택'
                  warn |-> FALSE, warn_point |-> FALSE]

\* the call of _judge_usage has returned
JudgeReturned == pc = "returned" /\ "building" \in DOMAIN args

\* primary and secondary usage of the floor record the call was given
PrimaryUsage == DataOf(args.floor_result)[1].mainPurpsCdNm

SecondaryUsage == DataOf(args.floor_result)[1].etcPurps

\* C27: a secondary usage with a neighbourhood-facility phrase is classified
\* alone; otherwise the primary usage is what is classified, so a primary usage
\* of bare '점포' gives the storefront sentinel whatever other secondary usage
\* comes with it
C27_ClassificationInput ==
    JudgeReturned =>
        IF Contains(SecondaryUsage, <<"geun", "rin", "saeng", "hwal", "si", "seol">>)   \* '근린생활시설'
        THEN result.judged_usage
               = _classify_usage_master(SecondaryUsage, result.area_m2).usage
        ELSE /\ result.judged_usage
                  = _classify_usage_master(PrimaryUsage, result.area_m2).usage
             /\ PrimaryUsage = <<"jeom", "po">> => result.judged_usage = NEED_USAGE_SELECTION   \* '점포'

DetailOps == {"floor", "area", "unit"}

Outstanding == Cardinality({f \in DetailOps : futures[f] = "running"})

\* _fetch_detail_apis was called in the running call
Fetched == futures.floor # "none"

\* C25: the fetch issues the floor and the unit-area call always and the
\* unit-info call exactly when the listing has a unit label, each at most once
\* per call of process(); at most 3 calls are outstanding; none is running
\* when the fetch hands on its results or process() returns
C25_FetchIssuesAndJoins ==
    /\ \A f \in DetailOps : calls[f] <= 1
    /\ Outstanding <= 3
    /\ Fetched => /\ calls.floor = 1
                  /\ calls.area = 1
                  /\ calls.unit = 1 <=> listing.ho # <<>>
                  /\ \A f \in DetailOps : calls[f] = 1 <=> futures[f] # "none"
    /\ pc # "fetching" => Outstanding = 0

\* the floor call raised, the unit-info call had been issued, and process()
\* has returned
C25_Witness ==
    /\ Done
    /\ LastStage = "fetch"
    /\ futures.floor = "raised"
    /\ futures.area = "done"
    /\ futures.unit = "done"
    /\ calls.unit = 1

\* the answers of the session so far that ask for a selection
NeedsSoFar ==
    SelectSeq([i \in 1..Len(answers) |-> answers[i].kind], LAMBDA k : k \in NeedKinds)
        \o (IF Done /\ Kind(result) \in NeedKinds THEN <<Kind(result)>> ELSE <<>>)

\* the place of a selection in the order of the stages
NeedRank(k) ==
    CASE k = "need_building_selection" -> 1
      [] k = "need_unit_selection" -> 2
      [] k = "need_usage_selection" -> 3

\* C30: with a caller that answers every request for a selection by a valid
\* value and passes the caches back, a session has at most three answers that
\* ask for a selection, no kind twice, and never an earlier stage's request
\* after a later stage's
C30_SelectionsProgress ==
    ~IsReplay =>
        /\ Len(NeedsSoFar) <= 3
        /\ \A i, j \in 1..Len(NeedsSoFar) :
             i < j => NeedRank(NeedsSoFar[i]) < NeedRank(NeedsSoFar[j])

\* a session went through all three selections and ended with the text
C30_Witness ==
    /\ Done
    /\ Kind(result) = "success"
    /\ [i \in 1..Len(answers) |-> answers[i].kind]
         = <<"need_building_selection", "need_unit_selection", "need_usage_selection">>

\* C28: a call with selections and the caches of the earlier answer, and the
\* same call without any cache, answer with the same kind, judged category,
\* selected building and area comparison
C28_ResumptionPreservesOutcome ==
    (Done /\ IsReplay /\ ~Raised) => Answer(result) = answers[Len(answers)]

\* a call resumed with caches ended with the text, and so did its repetition
\* without caches
C28_Witness ==
    /\ Done
    /\ IsReplay
    /\ ~Raised
    /\ Kind(result) = "success"
    /\ args.building_idx # None
    /\ calls.floor = 1

\* C29: the floor, unit-area and unit-info records a call works with are those
\* of the building it selected, also when the caller calls again with another
\* building index
C29_DetailsOfSelectedBuilding ==
    (building # None /\ stages # <<>> /\ StageIndex(LastStage) >= StageIndex("unit")) =>
        \A res \in {floor_result, area_result, unit_result} :
            res # None => res[1].pk = building[1].mgmBldrgstPk

(***************************************************************************)
(* The text of a success.                                                  *)
(***************************************************************************)

TextReturned == pc = "text_returned"

\* text.split("\n")
RECURSIVE SplitLines(_)
SplitLines(s) ==
    IF \A i \in 1..Len(s) : s[i] # "\n" THEN <<s>>
    ELSE LET i == CHOOSE x \in 1..Len(s) :
                     s[x] = "\n" /\ \A y \in 1..(x - 1) : s[y] # "\n"
         IN <<SubSeq(s, 1, i - 1)>> \o SplitLines(SubSeq(s, i + 1, Len(s)))

\* the lines of the returned text that are not empty
TextLines == SelectSeq(SplitLines(result.text), LAMBDA l : l # <<>>)

\* The labels of the lines in the order the text is to show them; the last
\* is the footer note.
LineLabels ==
    <<<<"bullet", " ", "so", "jae", "ji", ":">>, <<"bullet", " ", "jeon", "yong", "myeon", "jeok", ":">>, <<"bullet", " ", "bo", "jeung", "geum", "/", "wol", "se", ":">>, <<"bullet", " ", "gwan", "ri", "bi", ":">>, <<"bullet", " ", "jung", "gae", "dae", "sang", "mul", " ", "jong", "ryu", ":">>,   \* '• 소재지:' | '• 전용면적:' | '• 보증금/월세:' | '• 관리비:' | '• 중개대상물 종류:'
      <<"bullet", " ", "geo", "rae", "hyeong", "tae", ":">>, <<"bullet", " ", "chong", " ", "cheung", "su", ":">>, <<"bullet", " ", "hae", "dang", " ", "cheung", "su", ":">>, <<"bullet", " ", "ip", "ju", "ga", "neung", "il", ":">>, <<"bullet", " ", "sa", "yong", "seung", "in", "il", ":">>,   \* '• 거래형태:' | '• 총 층수:' | '• 해당 층수:' | '• 입주가능일:' | '• 사용승인일:'
      <<"bullet", " ", "hwa", "jang", "sil", ":">>, <<"bullet", " ", "ju", "cha", ":">>, <<"bullet", " ", "bang", "hyang", ":">>, <<"bullet", " ", "gwon", "ri", "gwan", "gye", ":">>, <<"bullet", " ", "geon", "chuk", "mul", "dae", "jang", "sang", " ", "wi", "ban", " ", "geon", "chuk", "mul", ":">>,   \* '• 화장실:' | '• 주차:' | '• 방향:' | '• 권리관계:' | '• 건축물대장상 위반 건축물:'
      <<"bullet", " ", "mi", "deung", "gi", " ", "geon", "mul">>, <<"bullet", " ", "chong", " ", "cheung", "su", "neun", " ", "ji", "ha", "cheung", "eun", " ", "je", "oe">>>>   \* '• 미등기 건물' | '• 총 층수는 지하층은 제외'

\* the place of a line's label in that order, 0 for a line without one
LabelRank(line) ==
    LET ranks == {i \in 1..Len(LineLabels) : StartsWith(line, LineLabels[i])}
    IN IF ranks = {} THEN 0 ELSE CHOOSE i \in ranks : TRUE

\* C21: in every success text the labeled lines that are present stand in the
\* fixed order location, area, deposit/rent, maintenance fee, use category,
\* lease type, total floors, subject floor, move-in date, approval date,
\* bathrooms, parking, direction, encumbrances, violation status,
\* unregistered flag, footer note; the area line comes directly after the
\* location line and the footer note is the last line.
C21_LinesInFixedOrder ==
    TextReturned =>
        LET ls == TextLines
        IN /\ \A i \in 1..Len(ls) : LabelRank(ls[i]) # 0
           /\ \A i, j \in 1..Len(ls) : i < j => LabelRank(ls[i]) < LabelRank(ls[j])
           /\ Len(ls) >= 2
           /\ LabelRank(ls[1]) = 1
           /\ LabelRank(ls[2]) = 2
           /\ LabelRank(ls[Len(ls)]) = Len(LineLabels)

\* the figures of the area comparison that are known, in the order actual,
\* listing, registry
KnownFigures ==
    SelectSeq(<<args.area_comparison.actual_area_m2, args.area_comparison.kakao_area,
                args.area_comparison.registry_area>>, LAMBDA a : a # 0)

\* 'value㎡(N평)' of a figure in hundredths of a square metre, N the figure
\* divided by 3.3058 and rounded
Rendered(area) ==
    FloatToStr(area) \o <<"m2", "(">> \o NatToStr((200 * area + 33058) \div 66116) \o <<"pyeong", ")">>   \* '㎡(' | '평)'

\* the positions at which kw occurs in s
Occurrences(s, kw) == {i \in 1..Len(s) : IsPrefixAt(s, kw, i)}

\* the values of the area lines of the text: what follows the label
AreaValues ==
    LET label == <<"bullet", " ", "jeon", "yong", "myeon", "jeok", ":">>   \* '• 전용면적:'
        ls == SelectSeq(TextLines, LAMBDA l : StartsWith(l, label))
    IN [i \in 1..Len(ls) |-> Strip(SubSeq(ls[i], Len(label) + 1, Len(ls[i])))]

\* C22: in every success text, when at least one of the three area figures
\* (actual, listing, registry) is known, the area line holds every known
\* figure as 'value㎡(N평)', in the order actual, listing, registry, joined by
\* ' / '; its value is not empty.
C22_AreaLinePopulated ==
    (TextReturned /\ KnownFigures # <<>>) =>
        /\ Len(AreaValues) = 1
        /\ LET v == AreaValues[1]
               at == [i \in 1..Len(KnownFigures) |->
                        Occurrences(v, Rendered(KnownFigures[i]))]
           IN /\ v # <<>>
              /\ \A i \in 1..Len(KnownFigures) : at[i] # {}
              /\ \A i, j \in 1..Len(KnownFigures) :
                     i < j => \E p \in at[i], q \in at[j] : p < q
              /\ Cardinality(Occurrences(v, <<" ", "/", " ">>)) = Len(KnownFigures) - 1

Blank(s) == Strip(s) = <<>>

HasLine(line) == \E i \in 1..Len(TextLines) : TextLines[i] = line

\* C23: when the building record has no approval date, no total-floor count,
\* or no parking count while the listing describes no parking, the success
\* text still holds the approval-date line, the total-floor line and the
\* parking line respectively, each showing 확인요망.
C23_MissingDataShownAsDefault ==
    TextReturned =>
        LET b == args.building
        IN /\ (Blank(b.useAprDay) /\ Blank(b.pmsDay)) => HasLine(<<"bullet", " ", "sa", "yong", "seung", "in", "il", ":", " ", "hwak", "in", "yo", "mang">>)   \* '• 사용승인일: 확인요망'
           /\ (Blank(b.grndFlrCnt) /\ Blank(b.heit) /\ Blank(b.flrCnt))
                  => HasLine(<<"bullet", " ", "chong", " ", "cheung", "su", ":", " ", "hwak", "in", "yo", "mang">>)   \* '• 총 층수: 확인요망'
           /\ ((\A f \in {"indrAutoUtcnt", "oudrAutoUtcnt", "indrMechUtcnt",
                          "oudrMechUtcnt", "pkngCnt", "totPkngCnt"} : Blank(b[f]))
               /\ args.parsed.parking = <<>>)
                  => HasLine(<<"bullet", " ", "ju", "cha", ":", " ", "hwak", "in", "yo", "mang">>)   \* '• 주차: 확인요망'


====
